---- MODULE Spec2Model ----
(***************************************************************************)
(* Batch report orchestration of AutoAtlas Pro.                            *)
(*                                                                         *)
(* Four drivers produce report pages from one coverage layer:              *)
(*   ctl  WizardController.start_generation / process_next_report          *)
(*   dlg  WizardDialog._generate_reports / _process_next_report            *)
(*   gb   ReportComposer.generate_batch                                    *)
(*   pv   ReportComposer.generate_preview                                  *)
(* A behaviour is one run of one driver.  The page renderer                *)
(* (_generate_single) and the steps of preparation are collaborators whose *)
(* success or failure is an input of the action that calls them.           *)
(*                                                                         *)
(* Further specifications over the same variables take the collaborators   *)
(* one by one:                                                             *)
(*   EngineSpec  the calls of DataEngine                                   *)
(*   HelperSpec  the helpers of ReportComposer and MapRenderer             *)
(*   RenderSpec  _generate_single and the layers of the project            *)
(*   DepSpec     DependencyManager                                         *)
(***************************************************************************)
EXTENDS Integers, Sequences, FiniteSets, TLC

\* Largest number of pieces of a name given to a helper.
MaxNameLen == 3

\* Largest number of temporary layers left in the project by earlier renders
\* when _generate_single is called.
MaxTempLayers == 2

\* Largest number of base-map layers registered by direct calls of
\* _create_base_map_layer.
MaxBaseLayers == 2

\* Largest number of features of the coverage layer.
MaxRecords == 11

\* wizard_controller.py:246  if self._consecutive_errors >= 3
CircuitBreakerThreshold == 3

\* wizard_controller.py:252, wizard_dialog.py:1151, report_composer.py:203
GcPeriod == 10

\* wizard_dialog.py:1174  self._batch_errors[:10]
ErrorDisplayCap == 10

\* A feature id that no layer holds (a caller-supplied config.feature_ids entry).
UnknownId == MaxRecords + 1

\* Largest number of features of a layer whose attribute values are explored.
MaxRows == 3

VARIABLES
    layer,               \* the coverage layer: its feature rows, in iteration order
    driver,              \* which driver this run uses: "none" before the run
    pc,                  \* "idle", "timer" (a QTimer.singleShot step is pending),
                         \* "loop" (inside generate_batch's for loop), "done"
    config,              \* the ReportConfig of the run (feature_ids, base_map)
    names_cache,         \* DataEngine._names_cache: ordered id -> name pairs
    cancelled,           \* _cancelled
    batch_paths,         \* _batch_paths / output_paths
    batch_errors,        \* _batch_errors
    consecutive_errors,  \* _consecutive_errors (WizardController only)
    batch_ids,           \* _batch_ids / feature_ids
    batch_index,         \* _batch_index / i (0-based position of the next record)
    batch_total,         \* _batch_total / total
    batch_base_layer,    \* _batch_base_layer / base_layer: "None" or the layer
    project_layers,      \* base-map layers registered in the QgsProject
    _status_cache,       \* DependencyManager._status_cache: package -> DepStatus
    importable,          \* the optional packages QGIS's Python can import
    project,             \* the QgsProject's layers as a render leaves them: the
                         \* names of the analysis layer and of a context layer,
                         \* its opacity, the temporary layers registered
    report,              \* what the view (or the caller) has been told: a sequence
    log,                 \* history: the events of the run, in order
    _layer,              \* DataEngine._layer: the rows of the layer last loaded
    _id_field,           \* DataEngine._id_field
    _name_field,         \* DataEngine._name_field
    _indicator_fields,   \* DataEngine._indicator_fields
    _data_cache,         \* DataEngine._data_cache: field -> ordered id -> value pairs
    result               \* the last direct call of the engine: arguments and outcome

vars == << layer, driver, pc, config, names_cache, cancelled, batch_paths,
           batch_errors, consecutive_errors, batch_ids, batch_index, batch_total,
           batch_base_layer, project_layers, project, _status_cache, importable,
           report, log, _layer, _id_field, _name_field, _indicator_fields, _data_cache, result >>

\* The fields of the engine that load assigns, the name cache aside.
engine_fields == << _layer, _id_field, _name_field, _indicator_fields, _data_cache >>

\* The run of a driver: everything but the engine's fields and its last call.
run_vars == << driver, pc, config, cancelled, batch_paths, batch_errors,
               consecutive_errors, batch_ids, batch_index, batch_total,
               batch_base_layer, project_layers, report, log >>

----------------------------------------------------------------------------
\* Values

NoLayer == "None"
BaseMapLayer == "_basemap"

\* Optional[List]: None, or a list.
None == [some |-> FALSE, val |-> << >>]
Some(s) == [some |-> TRUE, val |-> s]

\* Python truthiness of an Optional[List]: None and [] are falsy.
Truthy(opt) == opt.some /\ Len(opt.val) > 0

\* A name, a str: the sequence of its pieces, a piece being a run of
\* alphanumeric characters or one character of another kind.
NoName == << "" >>

\* A Python float, a numpy float64: NaN, zero, or the finite positive number
\* m * 2^e with 2^52 <= m < 2^53, the mantissa m held as hi * Limb + lo.
Limb == 2^28

Double(hi, lo, e) == [nan |-> FALSE, hi |-> hi, lo |-> lo, e |-> e]
NaN == [nan |-> TRUE, hi |-> 0, lo |-> 0, e |-> 0]

\* The number of bits of n.
BitLen(n) == CHOOSE b \in 0..30 : n < 2^b /\ (b = 0 \/ n >= 2^(b - 1))

\* float(n) of a small int n >= 0.
Num(n) ==
    IF n = 0 THEN Double(0, 0, 0)
    ELSE Double(n * 2^(25 - BitLen(n)), 0, BitLen(n) - 53)

\* a < b on two numbers.
Less(a, b) ==
    IF b.hi = 0 THEN FALSE
    ELSE IF a.hi = 0 THEN TRUE
    ELSE \/ a.e < b.e
         \/ a.e = b.e /\ a.hi < b.hi
         \/ a.e = b.e /\ a.hi = b.hi /\ a.lo < b.lo

\* a < b, a <= b, a == b on floats: every comparison with NaN is False.
Lt(a, b) == ~a.nan /\ ~b.nan /\ Less(a, b)
Le(a, b) == ~a.nan /\ ~b.nan /\ ~Less(b, a)
FEq(a, b) == ~a.nan /\ ~b.nan /\ a = b

\* The float64 nearest to (H * Limb + L) * 2^E, a number of 54 bits or more
\* followed by a nonzero remainder when sticky: round to nearest, ties to even.
Round(H, L, sticky, E) ==
    LET k == BitLen(H) - 25
        cut == 2^k
        rest == L % cut
        lo0 == (L \div cut) + (H % cut) * (Limb \div cut)
        up == \/ 2 * rest > cut
              \/ 2 * rest = cut /\ (sticky \/ lo0 % 2 = 1)
        lo1 == IF up THEN lo0 + 1 ELSE lo0
        hi1 == (H \div cut) + (lo1 \div Limb)
    IN  IF hi1 = 2^25 THEN Double(2^24, 0, E + k + 1) ELSE Double(hi1, lo1 % Limb, E + k)

\* x + y in float64, for x, y >= 0: the smaller operand is shifted to the
\* exponent of the larger with two guard bits, and the sum is rounded.
Add(x, y) ==
    IF x.nan \/ y.nan THEN NaN
    ELSE IF x.hi = 0 THEN y
    ELSE IF y.hi = 0 THEN x
    ELSE LET a == IF x.e >= y.e THEN x ELSE y
             b == IF x.e >= y.e THEN y ELSE x
             d == a.e - b.e
             La == (4 * a.lo) % Limb
             Ha == 4 * a.hi + (4 * a.lo) \div Limb
             L4 == (4 * b.lo) % Limb
             H4 == 4 * b.hi + (4 * b.lo) \div Limb
             Lb == IF d < 28 THEN (L4 \div 2^d) + (H4 % 2^d) * (Limb \div 2^d)
                   ELSE IF d < 56 THEN H4 \div 2^(d - 28) ELSE 0
             Hb == IF d < 28 THEN H4 \div 2^d ELSE 0
             sticky == IF d < 28 THEN L4 % 2^d # 0
                       ELSE IF d < 56 THEN L4 # 0 \/ H4 % 2^(d - 28) # 0 ELSE TRUE
         IN  Round(Ha + Hb + (La + Lb) \div Limb, (La + Lb) % Limb, sticky, a.e - 2)

\* x / n in float64, for x >= 0 and a count n in 1..8: long division of the
\* mantissa with five more bits, rounded.
Div(x, n) ==
    IF x.nan THEN NaN
    ELSE IF x.hi = 0 THEN x
    ELSE LET t == (x.hi % n) * Limb + x.lo
             r == 32 * (t % n)
             ql == t \div n
         IN  Round(32 * (x.hi \div n) + ql \div 2^23, 32 * (ql % 2^23) + r \div n,
                   r % n # 0, x.e - 5)

\* The value of an attribute, feature[field_name]: None, a str, an int, a float,
\* or an object of another type (a date, a NULL variant).
PyNone == [t |-> "NoneType", s |-> << >>, val |-> Num(0)]
PyStr(s) == [t |-> "str", s |-> s, val |-> Num(0)]
PyInt(n) == [t |-> "int", s |-> << >>, val |-> Num(n)]
PyFloat(v) == [t |-> "float", s |-> << >>, val |-> v]
PyOther == [t |-> "object", s |-> << >>, val |-> Num(0)]

\* One event of the history.
Ev(ev, i, total, fid, name, ok) ==
    [ev |-> ev, i |-> i, total |-> total, fid |-> fid, name |-> name, ok |-> ok]

EvStep == Ev("step", 0, 0, 0, NoName, FALSE)
EvProgress(i, total, name) == Ev("progress", i, total, 0, name, FALSE)
EvRender(fid, name, ok) == Ev("render", 0, 0, fid, name, ok)
EvGc == Ev("gc", 0, 0, 0, NoName, FALSE)
EvCancel == Ev("cancel", 0, 0, 0, NoName, FALSE)
EvTimer == Ev("timer", 0, 0, 0, NoName, FALSE)
EvAddLayer == Ev("addMapLayer", 0, 0, 0, NoName, FALSE)
EvRemoveLayer == Ev("removeMapLayer", 0, 0, 0, NoName, FALSE)
EvOutcome(kind) == Ev("outcome", 0, 0, 0, << kind >>, FALSE)

\* What a terminal outcome tells the view or the caller.
Report(kind, has_count, count, has_paths, paths, has_errors, errors, msg) ==
    [kind |-> kind, has_count |-> has_count, count |-> count,
     has_paths |-> has_paths, paths |-> paths,
     has_errors |-> has_errors, errors |-> errors, msg |-> msg]

----------------------------------------------------------------------------
\* The coverage layer

\* The attribute fields of every layer: layer.fields().
LayerFields == { "id", "name", "pop", "area" }

\* sorted(available_fields)
SortedLayerFields == << "area", "id", "name", "pop" >>

\* Row i of a layer of n features; ids are not in ascending order.
RowsOf(n) ==
    [i \in 1..n |-> [id |-> n + 1 - i, name |-> << "name", ToString(n + 1 - i) >>,
                     pop |-> PyInt(n + 1 - i), area |-> PyNone]]

\* Layers of two features whose display names are the same, or differ only in
\* characters that are not alphanumeric.
NamesakeRows(first, second) ==
    << [id |-> 2, name |-> first, pop |-> PyInt(2), area |-> PyNone],
       [id |-> 1, name |-> second, pop |-> PyInt(1), area |-> PyNone] >>

NamesakeLayers ==
    { NamesakeRows(<< "San", " ", "Pedro" >>, << "San", " ", "Pedro" >>),
      NamesakeRows(<< "Rio", "/", "Negro" >>, << "Rio", "*", "Negro" >>) }

Layers == { RowsOf(n) : n \in 0..MaxRecords } \cup NamesakeLayers

----------------------------------------------------------------------------
\* DataEngine

RECURSIVE PutName(_, _, _)
\* dict assignment nc[fid] = name: a known key keeps its position.
PutName(nc, fid, name) ==
    IF nc = << >> THEN << [id |-> fid, name |-> name] >>
    ELSE IF Head(nc).id = fid THEN << [id |-> fid, name |-> name] >> \o Tail(nc)
    ELSE << Head(nc) >> \o PutName(Tail(nc), fid, name)

RECURSIVE LoadNames(_, _)
\* load: the pass over the layer's features that fills _names_cache.
LoadNames(rows, nc) ==
    IF rows = << >> THEN nc
    ELSE LoadNames(Tail(rows), PutName(nc, Head(rows).id, Head(rows).name))

\* DataEngine.feature_ids: list(self._names_cache.keys())
feature_ids(nc) == [i \in 1..Len(nc) |-> nc[i].id]

\* str(fid)
Str(fid) == << ToString(fid) >>

\* self._names_cache.get(fid, str(fid))
NamesGet(nc, fid) ==
    IF \E i \in 1..Len(nc) : nc[i].id = fid
    THEN nc[CHOOSE i \in 1..Len(nc) : nc[i].id = fid].name
    ELSE Str(fid)

\* The elements of a list.
Range(seq) == { seq[k] : k \in 1..Len(seq) }

\* float(raw_val): the float of an int or a float; of a str, the number it
\* spells ("nan" spells NaN), ValueError otherwise; TypeError for None and for
\* an object of another type.
Spelled ==
    (<< "0" >> :> Num(0)) @@ (<< "0", ".", "1" >> :> Double(26843545, 161061274, -56))
        @@ (<< "nan" >> :> NaN)

float(raw) ==
    IF raw.t \in { "int", "float" } THEN [raises |-> "", val |-> raw.val]
    ELSE IF raw.t = "str"
    THEN IF raw.s \in DOMAIN Spelled
         THEN [raises |-> "", val |-> Spelled[raw.s]]
         ELSE [raises |-> "ValueError", val |-> NaN]
    ELSE [raises |-> "TypeError", val |-> NaN]

\* bool(raw_val)
PyTruthy(raw) ==
    IF raw.t = "NoneType" THEN FALSE
    ELSE IF raw.t = "str" THEN raw.s # << >>
    ELSE IF raw.t \in { "int", "float" } THEN raw.val.nan \/ raw.val # Num(0)
    ELSE TRUE

\* A slip: "if raw_val:" for the test below, which also skips a zero.
Considered_Truthy(raw) == PyTruthy(raw)

\* load: if raw_val is not None and raw_val != ""
Considered(raw) == raw.t # "NoneType" /\ ~(raw.t = "str" /\ raw.s = << >>)

\* load: the value is stored when float(raw_val) raises neither ValueError nor
\* TypeError, the two exceptions float raises and the except clause passes over.
Stores(raw) == Considered(raw) /\ float(raw).raises = ""

RECURSIVE PutValue(_, _, _)
\* dict assignment values[fid] = val: a known key keeps its position.
PutValue(values, fid, val) ==
    IF values = << >> THEN << [id |-> fid, val |-> val] >>
    ELSE IF Head(values).id = fid THEN << [id |-> fid, val |-> val] >> \o Tail(values)
    ELSE << Head(values) >> \o PutValue(Tail(values), fid, val)

\* {}: a dict without keys.
EmptyDict == [f \in { } |-> << >>]

\* A slip: the name cache is not emptied before the pass.
ClearNames_Kept(nc) == nc

\* self._names_cache.clear()
ClearNames(nc) == << >>

\* self._data_cache.clear(), then self._data_cache[field_name] = {} for each
\* indicator field
ClearData(dc, indicator_fields) == [f \in Range(indicator_fields) |-> << >>]

RECURSIVE LoadValues(_, _, _, _)
\* load: the pass over the layer's features that fills _data_cache.
LoadValues(rows, id_field, indicator_fields, dc) ==
    IF rows = << >> THEN dc
    ELSE LET feature == Head(rows)
             fid == feature[id_field]
         IN  LoadValues(Tail(rows), id_field, indicator_fields,
                 [f \in DOMAIN dc |->
                     IF f \in Range(indicator_fields) /\ Stores(feature[f])
                     THEN PutValue(dc[f], fid, float(feature[f]).val)
                     ELSE dc[f]])

\* A slip: only a null layer is refused.
LayerUsable_NullOnly(is_null, is_valid) == ~is_null

\* load: if not layer or not layer.isValid(): raise ValueError
LayerUsable(is_null, is_valid) == ~is_null /\ is_valid

RECURSIVE FirstMissing(_, _)
\* load: the first of [id_field, name_field, *indicator_fields] that is not a
\* field of the layer; "" when all of them are.
FirstMissing(fnames, available) ==
    IF fnames = << >> THEN ""
    ELSE IF Head(fnames) \notin available THEN Head(fnames)
    ELSE FirstMissing(Tail(fnames), available)

\* load, from "self._layer = layer" on, the name cache aside.
load_assigns(rows, id_field, name_field, indicator_fields) ==
    /\ _layer' = rows
    /\ _id_field' = id_field
    /\ _name_field' = name_field
    /\ _indicator_fields' = indicator_fields
    /\ _data_cache' = LoadValues(rows, id_field, indicator_fields,
                                 ClearData(_data_cache, indicator_fields))

\* The id, name and indicator fields of the job of a driver's run:
\* ReportConfig.id_field, name_field, indicator_fields.
JobFields == [id_field |-> "id", name_field |-> "name", indicator_fields |-> << "pop" >>]

\* The load of a driver's preparation: data_engine.load(layer, config.id_field,
\* config.name_field, config.indicator_fields) when preparation gets through it.
JobLoad(done) ==
    IF done
    THEN load_assigns(layer, JobFields.id_field, JobFields.name_field,
                      JobFields.indicator_fields)
    ELSE UNCHANGED engine_fields

\* A value of result: the call, its arguments, what it raised or returned and,
\* for a load, the ids the engine held when it was called.
NoArgs ==
    [layer_null |-> FALSE, layer_valid |-> FALSE, id_field |-> "", name_field |-> "",
     indicator_fields |-> << >>, field_name |-> "", ascending |-> FALSE, feature_id |-> 0]

NoMessage == [text |-> "", field |-> "", available |-> << >>]

\* A standard deviation: NaN, 0.0, 1.0, or the root of the sum of the squares
\* of the differences of[i] - mean, divided by over; the root is kept as this
\* expression and is positive when a difference is not zero.
NaNStd == [kind |-> "nan", of |-> << >>, mean |-> Num(0), over |-> 1]
ZeroStd == [kind |-> "zero", of |-> << >>, mean |-> Num(0), over |-> 1]
UnitStd == [kind |-> "one", of |-> << >>, mean |-> Num(0), over |-> 1]
RootStd(of, mean, over) == [kind |-> "root", of |-> of, mean |-> mean, over |-> over]

\* A deviation from the mean: NaN, 0.0, or the nonzero quotient
\* (value - mean) / std, kept as this expression.
NaNDeviation == [kind |-> "nan", value |-> Num(0), mean |-> Num(0), std |-> ZeroStd]
ZeroDeviation == [kind |-> "zero", value |-> Num(0), mean |-> Num(0), std |-> ZeroStd]
RatioDeviation(value, mean, std) ==
    [kind |-> "ratio", value |-> value, mean |-> mean, std |-> std]

\* FieldStats; percentiles holds the keys of the dict, histogram_bins and
\* histogram_counts the lengths of the two lists.
NoStats ==
    [field_name |-> "", count |-> 0, min_val |-> Num(0), max_val |-> Num(0),
     mean |-> Num(0), median |-> Num(0), std |-> ZeroStd, percentiles |-> << >>,
     histogram_bins |-> 0, histogram_counts |-> 0]

NoContext ==
    [feature_id |-> 0, name |-> NoName, value |-> Num(0), rank |-> 0,
     total_features |-> 0, deviation_from_mean |-> ZeroDeviation, percentile |-> 0,
     is_max |-> FALSE, is_min |-> FALSE]

Call(op, args, raised, msg, stats, ranking, ctx) ==
    [op |-> op, args |-> args, raised |-> raised, msg |-> msg,
     stats |-> stats, ranking |-> ranking, ctx |-> ctx, before |-> << >>]

Raised(op, args, exc, msg) == Call(op, args, exc, msg, NoStats, << >>, NoContext)

----------------------------------------------------------------------------
\* ReportComposer helpers

\* _create_base_map_layer: None for BaseMapType.NONE or an invalid raster layer.
CreateBaseMapLayer(bm_type, valid) ==
    IF bm_type = "NONE" THEN NoLayer
    ELSE IF ~valid THEN NoLayer
    ELSE BaseMapLayer

\* The characters of the names explored that are not alphanumeric; every other
\* piece of a name is a run of letters and digits: c.isalnum()
NonAlnum == { " ", "\t", ".", "_", "-", "'", "\"", "/", "\\", "*" }

isalnum(c) == c \notin NonAlnum

\* A slip: the single quote is kept.
keep_WithQuote == { " ", ".", "_", "-", "'" }

\* keep = set(" ._-")
keep == { " ", ".", "_", "-" }

\* The characters str.strip() removes.
Whitespace == { " ", "\t" }

\* s.strip()
strip(s) ==
    LET inner == { k \in 1..Len(s) : s[k] \notin Whitespace } IN
    IF inner = { } THEN << >>
    ELSE SubSeq(s, CHOOSE k \in inner : \A j \in inner : k <= j,
                   CHOOSE k \in inner : \A j \in inner : j <= k)

\* safe_name = self._sanitize_filename(name)
safe_name(name) ==
    strip([k \in 1..Len(name) |->
              IF isalnum(name[k]) \/ name[k] \in keep THEN name[k] ELSE "_"])

\* _generate_single, _export: the output path of a page is
\* config.output_dir / f"{safe_name}.pdf" (or .png), safe_name the sanitised name.
PathOf(name) == << "output_dir", "/" >> \o safe_name(name) \o << ".", "pdf" >>

\* f"{name}: {exc}"
ErrorString(name, exc) == << name, exc >>

RenderError == "render failed"

BreakerMessage == "Circuit Breaker Tripped"

\* A slip: the configured subset is ignored.
TargetIds_AllLoaded(cfg_ids, loaded) == loaded

\* config.feature_ids or self._data_engine.feature_ids
TargetIds(cfg_ids, loaded) == IF Truthy(cfg_ids) THEN cfg_ids.val ELSE loaded

\* The steps of preparation, in the order each driver takes them.
\* start_generation and _generate_reports (inside the try block):
WizardStages ==
    << "resolve_layer", "load", "apply_renderer", "compute_stats",
       "compute_ranking", "create_base_map_layer", "mkdir" >>

\* generate_batch:
BatchStages ==
    << "resolve_layer", "load", "mkdir", "apply_renderer", "compute_stats",
       "compute_ranking", "create_base_map_layer" >>

\* generate_preview:
PreviewStages ==
    << "resolve_layer", "load", "apply_renderer", "compute_stats",
       "compute_ranking", "first_feature", "create_base_map_layer" >>

StageNo(stages, s) == CHOOSE k \in 1..Len(stages) : stages[k] = s

\* Where preparation can raise: at one of its steps, or nowhere.
FailPoints(stages) == { stages[k] : k \in 1..Len(stages) } \cup { "none" }

\* The step s has completed when preparation fails at fail_at (or not at all).
StageDone(stages, s, fail_at) ==
    fail_at = "none" \/ StageNo(stages, s) < StageNo(stages, fail_at)

BaseMaps == { "NONE", "OSM" }

\* DependencyManager.__init__: self._status_cache = {}
EmptyCache == [p \in { } |-> ""]

\* The layers of the project when the wizard opens: the analysis layer and a
\* context layer under the names and the opacity (in percent) the user gave
\* them, and no temporary layer.
ProjectAsOpened ==
    [layer_name |-> << "communes" >>,
     ctx |-> [name |-> << "roads" >>, opacity |-> 100],
     temps |-> 0]

\* WizardController.build_config / WizardDialog._build_config: the config read
\* from the widgets; neither passes feature_ids, which keeps its default None.
build_config(bm) == [feature_ids |-> None, base_map |-> bm, progress_callback |-> TRUE]

----------------------------------------------------------------------------
\* The state after construction (WizardController.__init__, DataEngine.__init__)

Init ==
    /\ layer \in Layers
    /\ driver = "none"
    /\ pc = "idle"
    /\ config = build_config("NONE")
    /\ names_cache = << >>
    /\ cancelled = FALSE
    /\ batch_paths = << >>
    /\ batch_errors = << >>
    /\ consecutive_errors = 0
    /\ batch_ids = << >>
    /\ batch_index = 0
    /\ batch_total = 0
    /\ batch_base_layer = NoLayer
    /\ project_layers = 0
    /\ project = ProjectAsOpened
    /\ _status_cache = EmptyCache
    /\ importable = { }
    /\ report = << >>
    /\ log = << >>
    /\ _layer = << >>
    /\ _id_field = ""
    /\ _name_field = ""
    /\ _indicator_fields = << >>
    /\ _data_cache = EmptyDict
    /\ result = Raised("__init__", NoArgs, "", NoMessage)

----------------------------------------------------------------------------
\* WizardController

\* A slip: the step is scheduled after the try/except, whatever happened.
SchedulesStep_Always(fail_at) == TRUE

\* start_generation: the async loop is started only when the try block ends
\* without an exception.
SchedulesStep(fail_at) == fail_at = "none"

\* A slip: the step does not look at the cancel flag.
StepCancelled_Ignored(flag) == FALSE

\* process_next_report: if getattr(self, '_cancelled', False)
StepCancelled(flag) == flag

\* process_next_report: if self._batch_index >= self._batch_total
Exhausted(index, total) == index >= total

\* A slip: the 0-based index is reported.
ProgressIndex_ZeroBased(index) == index

\* process_next_report: update_progress(self._batch_index + 1, ...)
ProgressIndex(index) == index + 1

\* A slip: a success does not reset the counter.
CounterAfter_NoReset(c, ok) == IF ok THEN c ELSE c + 1

\* process_next_report: _consecutive_errors = 0 on success, += 1 on failure
CounterAfter(c, ok) == IF ok THEN 0 ELSE c + 1

\* Slips: the breaker trips one failure late, or never.
TripsBreaker_Late(c) == c > CircuitBreakerThreshold
TripsBreaker_Never(c) == FALSE

\* process_next_report: if self._consecutive_errors >= 3
TripsBreaker(c) == c >= CircuitBreakerThreshold

\* process_next_report: if self._batch_index % 10 == 0
GcDue(index) == index % GcPeriod = 0

\* The fields preparation assigns, as far as it got before fail_at; the target
\* list is assigned once the step ids_after has completed.
PrepFields(stages, ids_after, cfg, fail_at, valid) ==
    LET nc == LoadNames(layer, << >>)
        ids == TargetIds(cfg.feature_ids, feature_ids(nc))
        base == CreateBaseMapLayer(cfg.base_map, valid)
        created == StageDone(stages, "create_base_map_layer", fail_at) /\ base # NoLayer
    IN  /\ names_cache' = IF StageDone(stages, "load", fail_at) THEN nc ELSE names_cache
        /\ batch_ids' = IF StageDone(stages, ids_after, fail_at) THEN ids ELSE batch_ids
        /\ batch_index' = IF StageDone(stages, ids_after, fail_at) THEN 0 ELSE batch_index
        /\ batch_total' =
               IF StageDone(stages, ids_after, fail_at) THEN Len(ids) ELSE batch_total
        /\ batch_base_layer' =
               IF StageDone(stages, "create_base_map_layer", fail_at) THEN base
               ELSE batch_base_layer
        /\ project_layers' = IF created THEN project_layers + 1 ELSE project_layers
        /\ JobLoad(StageDone(stages, "load", fail_at))

\* self._project.addMapLayer(layer, False) in _create_base_map_layer
PrepEvents(stages, cfg, fail_at, valid) ==
    IF /\ StageDone(stages, "create_base_map_layer", fail_at)
       /\ CreateBaseMapLayer(cfg.base_map, valid) # NoLayer
    THEN << EvAddLayer >> ELSE << >>

\* start_generation
start_generation(fail_at, valid, bm) ==
    LET cfg == build_config(bm) IN
    /\ driver = "none"
    /\ driver' = "ctl"
    /\ config' = cfg
    /\ cancelled' = FALSE
    /\ batch_paths' = << >>
    /\ batch_errors' = << >>
    /\ consecutive_errors' = 0
    /\ PrepFields(WizardStages, "compute_ranking", cfg, fail_at, valid)
    \* QTimer.singleShot(0, self.process_next_report), the last line of the try
    /\ pc' = IF SchedulesStep(fail_at) THEN "timer" ELSE "done"
    \* except Exception as exc: self.view._on_batch_error(str(exc))
    /\ report' =
           IF fail_at = "none" THEN report
           ELSE Append(report,
                   Report("error", FALSE, 0, FALSE, << >>, FALSE, << >>, fail_at))
    /\ log' = log \o PrepEvents(WizardStages, cfg, fail_at, valid)
                  \o (IF SchedulesStep(fail_at) THEN << EvTimer >> ELSE << >>)
                  \o (IF fail_at = "none" THEN << >> ELSE << EvOutcome("error") >>)
    /\ UNCHANGED << layer, project, _status_cache, importable, result >>

\* process_next_report
process_next_report(ok) ==
    /\ driver = "ctl"
    /\ pc = "timer"
    /\ IF StepCancelled(cancelled)
       THEN \* self.view._on_batch_cancelled()
            /\ pc' = "done"
            /\ report' = Append(report,
                   Report("cancelled", FALSE, 0, FALSE, << >>, FALSE, << >>, ""))
            /\ log' = log \o << EvStep, EvOutcome("cancelled") >>
            /\ UNCHANGED << batch_paths, batch_errors, consecutive_errors, batch_index >>
       ELSE IF Exhausted(batch_index, batch_total)
       THEN \* self.view._on_batch_complete(self._batch_paths, self._batch_errors)
            /\ pc' = "done"
            /\ report' = Append(report,
                   Report("complete", FALSE, 0, TRUE, batch_paths, TRUE, batch_errors, ""))
            /\ log' = log \o << EvStep, EvOutcome("complete") >>
            /\ UNCHANGED << batch_paths, batch_errors, consecutive_errors, batch_index >>
       ELSE LET fid == batch_ids[batch_index + 1]
                name == NamesGet(names_cache, fid)
                c == CounterAfter(consecutive_errors, ok)
                tripped == ~ok /\ TripsBreaker(c)
                attempt == << EvStep,
                              EvProgress(ProgressIndex(batch_index), batch_total, name),
                              EvRender(fid, name, ok) >>
            IN  /\ batch_paths' =
                       IF ok THEN Append(batch_paths, PathOf(name)) ELSE batch_paths
                /\ batch_errors' =
                       IF ok THEN batch_errors
                       ELSE Append(batch_errors, ErrorString(name, RenderError))
                /\ consecutive_errors' = c
                /\ IF tripped
                   THEN \* self.view._on_batch_error(...); return
                        /\ batch_index' = batch_index
                        /\ pc' = "done"
                        /\ report' = Append(report,
                               Report("error", FALSE, 0, FALSE, << >>, FALSE, << >>,
                                      BreakerMessage))
                        /\ log' = log \o attempt \o << EvOutcome("error") >>
                   ELSE /\ batch_index' = batch_index + 1
                        /\ pc' = "timer"
                        /\ report' = report
                        /\ log' = log \o attempt
                                      \o (IF GcDue(batch_index + 1) THEN << EvGc >> ELSE << >>)
                                      \o << EvTimer >>
    /\ UNCHANGED << layer, project, _status_cache, importable, driver, config, names_cache, cancelled, batch_ids,
                    batch_total, batch_base_layer, project_layers, engine_fields,
                    result >>

\* cancel_generation, while a run is in progress (the Cancel button is wired to
\* it only for the duration of a run).
cancel_generation ==
    /\ driver = "ctl"
    /\ pc = "timer"
    /\ cancelled' = TRUE
    /\ log' = IF cancelled THEN log ELSE Append(log, EvCancel)
    /\ UNCHANGED << layer, project, _status_cache, importable, driver, pc, config, names_cache, batch_paths, batch_errors,
                    consecutive_errors, batch_ids, batch_index, batch_total,
                    batch_base_layer, project_layers, report, engine_fields, result >>

\* cleanup: no handler of the controller calls it; its owner may, once the run
\* is over.
cleanup ==
    /\ driver = "ctl"
    /\ pc = "done"
    /\ batch_base_layer # NoLayer
    /\ batch_base_layer' = NoLayer
    /\ project_layers' = project_layers - 1
    /\ log' = Append(log, EvRemoveLayer)
    /\ UNCHANGED << layer, project, _status_cache, importable, driver, pc, config, names_cache, cancelled, batch_paths,
                    batch_errors, consecutive_errors, batch_ids, batch_index,
                    batch_total, report, engine_fields, result >>

----------------------------------------------------------------------------
\* WizardDialog

\* _on_batch_complete: "\n".join(self._batch_errors[:10])
Shown(errors) ==
    SubSeq(errors, 1, IF Len(errors) < ErrorDisplayCap THEN Len(errors) ELSE ErrorDisplayCap)

\* _reset_buttons: the base layer the dialog holds is removed from the project
\* and forgotten.  base is the layer held when the handler runs, registered the
\* number of layers in the project then.
ResetLayer(base) == NoLayer
ResetProject(base, registered) == IF base # NoLayer THEN registered - 1 ELSE registered
ResetEvents(base) == IF base # NoLayer THEN << EvRemoveLayer >> ELSE << >>

\* _generate_reports
_generate_reports(fail_at, valid, bm) ==
    LET cfg == build_config(bm)
        base == IF StageDone(WizardStages, "create_base_map_layer", fail_at)
                THEN CreateBaseMapLayer(cfg.base_map, valid) ELSE batch_base_layer
        registered == IF /\ StageDone(WizardStages, "create_base_map_layer", fail_at)
                         /\ base # NoLayer
                      THEN project_layers + 1 ELSE project_layers
        nc == LoadNames(layer, << >>)
        ids == TargetIds(cfg.feature_ids, feature_ids(nc))
    IN
    /\ driver = "none"
    /\ driver' = "dlg"
    /\ config' = cfg
    /\ cancelled' = FALSE
    /\ batch_paths' = << >>
    /\ batch_errors' = << >>
    /\ names_cache' = IF StageDone(WizardStages, "load", fail_at) THEN nc ELSE names_cache
    /\ batch_ids' =
           IF StageDone(WizardStages, "compute_ranking", fail_at) THEN ids ELSE batch_ids
    /\ batch_index' =
           IF StageDone(WizardStages, "compute_ranking", fail_at) THEN 0 ELSE batch_index
    /\ batch_total' =
           IF StageDone(WizardStages, "compute_ranking", fail_at) THEN Len(ids)
           ELSE batch_total
    \* QTimer.singleShot(0, self._process_next_report), the last line of the try
    /\ pc' = IF SchedulesStep(fail_at) THEN "timer" ELSE "done"
    /\ IF fail_at = "none"
       THEN /\ batch_base_layer' = base
            /\ project_layers' = registered
            /\ report' = report
            /\ log' = log \o PrepEvents(WizardStages, cfg, fail_at, valid)
                          \o (IF SchedulesStep(fail_at) THEN << EvTimer >> ELSE << >>)
       ELSE \* except Exception as exc: self._on_batch_error(str(exc))
            /\ batch_base_layer' = ResetLayer(base)
            /\ project_layers' = ResetProject(base, registered)
            /\ report' = Append(report,
                   Report("error", FALSE, 0, FALSE, << >>, FALSE, << >>, fail_at))
            /\ log' = log \o PrepEvents(WizardStages, cfg, fail_at, valid)
                          \o (IF SchedulesStep(fail_at) THEN << EvTimer >> ELSE << >>)
                          \o ResetEvents(base) \o << EvOutcome("error") >>
    /\ JobLoad(StageDone(WizardStages, "load", fail_at))
    /\ UNCHANGED << layer, project, _status_cache, importable, consecutive_errors, result >>

\* _process_next_report
_process_next_report(ok) ==
    /\ driver = "dlg"
    /\ pc = "timer"
    /\ IF StepCancelled(cancelled)
       THEN \* self._on_batch_cancelled()
            /\ pc' = "done"
            /\ batch_base_layer' = ResetLayer(batch_base_layer)
            /\ project_layers' = ResetProject(batch_base_layer, project_layers)
            /\ report' = Append(report,
                   Report("cancelled", TRUE, Len(batch_paths), FALSE, << >>,
                          FALSE, << >>, ""))
            /\ log' = log \o << EvStep >> \o ResetEvents(batch_base_layer)
                          \o << EvOutcome("cancelled") >>
            /\ UNCHANGED << batch_paths, batch_errors, batch_index >>
       ELSE IF Exhausted(batch_index, batch_total)
       THEN \* self._on_batch_complete()
            /\ pc' = "done"
            /\ batch_base_layer' = ResetLayer(batch_base_layer)
            /\ project_layers' = ResetProject(batch_base_layer, project_layers)
            /\ report' = Append(report,
                   Report("complete", TRUE, Len(batch_paths), FALSE, << >>,
                          TRUE, Shown(batch_errors), ""))
            /\ log' = log \o << EvStep >> \o ResetEvents(batch_base_layer)
                          \o << EvOutcome("complete") >>
            /\ UNCHANGED << batch_paths, batch_errors, batch_index >>
       ELSE LET fid == batch_ids[batch_index + 1]
                name == NamesGet(names_cache, fid)
            IN  /\ batch_paths' =
                       IF ok THEN Append(batch_paths, PathOf(name)) ELSE batch_paths
                /\ batch_errors' =
                       IF ok THEN batch_errors
                       ELSE Append(batch_errors, ErrorString(name, RenderError))
                /\ batch_index' = batch_index + 1
                /\ pc' = "timer"
                /\ log' = log \o << EvStep,
                                     EvProgress(ProgressIndex(batch_index), batch_total, name),
                                     EvRender(fid, name, ok) >>
                              \o (IF GcDue(batch_index + 1) THEN << EvGc >> ELSE << >>)
                              \o << EvTimer >>
                /\ UNCHANGED << batch_base_layer, project_layers, report >>
    /\ UNCHANGED << layer, project, _status_cache, importable, driver, config, names_cache, cancelled, consecutive_errors,
                    batch_ids, batch_total, engine_fields, result >>

\* _cancel_generation: the Cancel button, enabled while a run is in progress and
\* disabled by the first click.
_cancel_generation ==
    /\ driver = "dlg"
    /\ pc = "timer"
    /\ ~cancelled
    /\ cancelled' = TRUE
    /\ log' = Append(log, EvCancel)
    /\ UNCHANGED << layer, project, _status_cache, importable, driver, pc, config, names_cache, batch_paths, batch_errors,
                    consecutive_errors, batch_ids, batch_index, batch_total,
                    batch_base_layer, project_layers, report, engine_fields, result >>

----------------------------------------------------------------------------
\* ReportComposer.generate_batch

\* The config.feature_ids a caller may pass for a layer: None, the empty list,
\* and lists that differ from the loaded ids in order, length and membership.
CallerTargets(rows) ==
    LET loaded == feature_ids(LoadNames(rows, << >>))
        n == Len(loaded)
    IN  { None, Some(<< >>), Some(<< UnknownId >>) }
        \cup (IF n >= 2
              THEN { Some(<< loaded[2], loaded[1] >>),
                     Some(<< loaded[n], UnknownId, loaded[n] >>) }
              ELSE { })

\* generate_batch: if i > 0 and i % 10 == 0, i the 0-based index of the record
BatchGcDue(i) == i > 0 /\ i % GcPeriod = 0

\* generate_batch, up to the for loop: an exception of preparation reaches the
\* caller.
generate_batch(cfg_ids, bm, has_cb, fail_at, valid) ==
    LET cfg == [feature_ids |-> cfg_ids, base_map |-> bm, progress_callback |-> has_cb] IN
    /\ driver = "none"
    /\ driver' = "gb"
    /\ config' = cfg
    /\ batch_paths' = << >>
    /\ PrepFields(BatchStages, "load", cfg, fail_at, valid)
    /\ IF fail_at = "none"
       THEN /\ pc' = "loop"
            /\ report' = report
            /\ log' = log \o PrepEvents(BatchStages, cfg, fail_at, valid)
       ELSE /\ pc' = "done"
            /\ report' = Append(report,
                   Report("raised", FALSE, 0, FALSE, << >>, FALSE, << >>, fail_at))
            /\ log' = log \o PrepEvents(BatchStages, cfg, fail_at, valid)
                          \o << EvOutcome("raised") >>
    /\ UNCHANGED << layer, project, _status_cache, importable, cancelled, batch_errors, consecutive_errors, result >>

\* generate_batch: the call of _generate_single for the record fid, whose name
\* is the engine's name of the record.
BatchRenderCall(nc, fid, ok) == EvRender(fid, NamesGet(nc, fid), ok)

\* generate_batch: one iteration of the for loop
generate_batch_iteration(ok) ==
    /\ driver = "gb"
    /\ pc = "loop"
    /\ batch_index < Len(batch_ids)
    /\ LET fid == batch_ids[batch_index + 1]
           name == NamesGet(names_cache, fid)
       IN  /\ batch_paths' =
                  IF ok THEN Append(batch_paths, PathOf(name)) ELSE batch_paths
           /\ log' = log
                  \o (IF config.progress_callback
                      THEN << EvProgress(batch_index + 1, batch_total, name) >>
                      ELSE << >>)
                  \o << BatchRenderCall(names_cache, fid, ok) >>
                  \* except Exception: ... continue
                  \o (IF ok /\ BatchGcDue(batch_index) THEN << EvGc >> ELSE << >>)
    /\ batch_index' = batch_index + 1
    /\ UNCHANGED << layer, project, _status_cache, importable, driver, pc, config, names_cache, cancelled, batch_errors,
                    consecutive_errors, batch_ids, batch_total, batch_base_layer,
                    project_layers, report, engine_fields, result >>

\* generate_batch: after the loop, the base layer is removed and the paths returned
generate_batch_return ==
    /\ driver = "gb"
    /\ pc = "loop"
    /\ batch_index >= Len(batch_ids)
    /\ pc' = "done"
    /\ project_layers' =
           IF batch_base_layer # NoLayer THEN project_layers - 1 ELSE project_layers
    /\ report' = Append(report,
           Report("returned", FALSE, 0, TRUE, batch_paths, FALSE, << >>, ""))
    /\ log' = log \o (IF batch_base_layer # NoLayer THEN << EvRemoveLayer >> ELSE << >>)
                  \o << EvOutcome("returned") >>
    /\ UNCHANGED << layer, project, _status_cache, importable, driver, config, names_cache, cancelled, batch_paths,
                    batch_errors, consecutive_errors, batch_ids, batch_index,
                    batch_total, batch_base_layer, engine_fields, result >>

----------------------------------------------------------------------------
\* ReportComposer.generate_preview

\* f"preview_{name}"
PreviewName(name) == << "preview", "_" >> \o name

\* A slip: the preview takes the first configured target, as a batch would.
PreviewTarget_Configured(cfg_ids, fids) == TargetIds(cfg_ids, fids)[1]

\* generate_preview: target_fid = fids[0], fids the engine's ids in load order
PreviewTarget(cfg_ids, fids) == fids[1]

\* generate_preview: the whole call.  A layer without features raises at
\* "first_feature"; an exception of the render reaches the caller as well.
generate_preview(cfg_ids, bm, fail_at, valid, ok) ==
    LET cfg == [feature_ids |-> cfg_ids, base_map |-> bm, progress_callback |-> FALSE]
        nc == LoadNames(layer, << >>)
        fids == feature_ids(nc)
        stop == IF fail_at = "none" /\ fids = << >> THEN "first_feature" ELSE fail_at
        base == CreateBaseMapLayer(bm, valid)
        created == StageDone(PreviewStages, "create_base_map_layer", stop) /\ base # NoLayer
        target_fid == PreviewTarget(cfg_ids, fids)
        name == NamesGet(nc, target_fid)
    IN
    /\ driver = "none"
    /\ fail_at = "first_feature" => fids = << >>
    /\ driver' = "pv"
    /\ pc' = "done"
    /\ config' = cfg
    /\ names_cache' = IF StageDone(PreviewStages, "load", stop) THEN nc ELSE names_cache
    /\ batch_ids' = IF StageDone(PreviewStages, "compute_ranking", stop) THEN fids
                    ELSE batch_ids
    /\ batch_base_layer' =
           IF StageDone(PreviewStages, "create_base_map_layer", stop) THEN base
           ELSE batch_base_layer
    /\ IF stop # "none"
       THEN /\ project_layers' = IF created THEN project_layers + 1 ELSE project_layers
            /\ batch_paths' = batch_paths
            /\ report' = Append(report,
                   Report("raised", FALSE, 0, FALSE, << >>, FALSE, << >>, stop))
            /\ log' = log \o (IF created THEN << EvAddLayer >> ELSE << >>)
                          \o << EvOutcome("raised") >>
       ELSE IF ~ok
       THEN \* _generate_single raises: the lines after it are not reached
            /\ project_layers' = IF created THEN project_layers + 1 ELSE project_layers
            /\ batch_paths' = batch_paths
            /\ report' = Append(report,
                   Report("raised", FALSE, 0, FALSE, << >>, FALSE, << >>, RenderError))
            /\ log' = log \o (IF created THEN << EvAddLayer >> ELSE << >>)
                          \o << EvRender(target_fid, PreviewName(name), FALSE),
                                EvOutcome("raised") >>
       ELSE /\ project_layers' = project_layers
            /\ batch_paths' = << PathOf(PreviewName(name)) >>
            /\ report' = Append(report,
                   Report("returned", FALSE, 0, TRUE, << PathOf(PreviewName(name)) >>,
                          FALSE, << >>, ""))
            /\ log' = log \o (IF created THEN << EvAddLayer >> ELSE << >>)
                          \o << EvRender(target_fid, PreviewName(name), TRUE) >>
                          \o (IF created THEN << EvRemoveLayer >> ELSE << >>)
                          \o << EvOutcome("returned") >>
    /\ JobLoad(StageDone(PreviewStages, "load", stop))
    /\ UNCHANGED << layer, project, _status_cache, importable, cancelled, batch_errors, consecutive_errors, batch_index,
                    batch_total, result >>

----------------------------------------------------------------------------

\* One driver is started per behaviour; the inputs of each handler are the
\* configuration read from the widgets or passed by the caller, and the outcome
\* of each collaborator call (preparation step, raster-layer validity, render).
Next ==
    \/ /\ driver = "none"
       /\ \E fail_at \in FailPoints(WizardStages), valid \in BOOLEAN, bm \in BaseMaps :
             start_generation(fail_at, valid, bm)
    \/ /\ driver = "ctl"
       /\ \E ok \in BOOLEAN : process_next_report(ok)
    \/ cancel_generation
    \/ cleanup
    \/ /\ driver = "none"
       /\ \E fail_at \in FailPoints(WizardStages), valid \in BOOLEAN, bm \in BaseMaps :
             _generate_reports(fail_at, valid, bm)
    \/ /\ driver = "dlg"
       /\ \E ok \in BOOLEAN : _process_next_report(ok)
    \/ _cancel_generation
    \/ /\ driver = "none"
       /\ \E cfg_ids \in CallerTargets(layer), bm \in BaseMaps, has_cb \in BOOLEAN,
             fail_at \in FailPoints(BatchStages), valid \in BOOLEAN :
             generate_batch(cfg_ids, bm, has_cb, fail_at, valid)
    \/ /\ driver = "gb"
       /\ \E ok \in BOOLEAN : generate_batch_iteration(ok)
    \/ generate_batch_return
    \/ /\ driver = "none"
       /\ \E cfg_ids \in CallerTargets(layer), bm \in BaseMaps,
             fail_at \in FailPoints(PreviewStages), valid \in BOOLEAN, ok \in BOOLEAN :
             generate_preview(cfg_ids, bm, fail_at, valid, ok)

Spec == Init /\ [][Next]_vars

----------------------------------------------------------------------------
\* DataEngine: statistics, ranking, feature context

\* A slip: a field that was not loaded is read as a field without values.
Unloaded_Tolerated(dc, field_name) == FALSE

\* if field_name not in self._data_cache: raise KeyError
Unloaded(dc, field_name) == field_name \notin DOMAIN dc

\* values_dict = self._data_cache[field_name]
ValuesDict(dc, field_name) == IF field_name \in DOMAIN dc THEN dc[field_name] ELSE << >>

\* feature_id in values_dict
HasKey(values, fid) == \E k \in 1..Len(values) : values[k].id = fid

\* values_dict[feature_id]
ValueOf(values, fid) == values[CHOOSE k \in 1..Len(values) : values[k].id = fid].val

\* np.array(list(values_dict.values()))
ArrayOf(values) == [k \in 1..Len(values) |-> values[k].val]

HasNaN(arr) == \E k \in 1..Len(arr) : arr[k].nan

\* np.max(arr), np.min(arr): NaN when the array holds a NaN.
ArrayMax(arr) ==
    IF HasNaN(arr) THEN NaN
    ELSE arr[CHOOSE k \in 1..Len(arr) : \A j \in 1..Len(arr) : ~Less(arr[k], arr[j])]

ArrayMin(arr) ==
    IF HasNaN(arr) THEN NaN
    ELSE arr[CHOOSE k \in 1..Len(arr) : \A j \in 1..Len(arr) : ~Less(arr[j], arr[k])]

\* np.sum(arr): the elements added one after the other.
RECURSIVE ArraySum(_)
ArraySum(arr) ==
    IF arr = << >> THEN Num(0)
    ELSE Add(ArraySum(SubSeq(arr, 1, Len(arr) - 1)), arr[Len(arr)])

\* np.mean(arr): the sum divided by the count.
ArrayMean(arr) == Div(ArraySum(arr), Len(arr))

\* The k-th smallest element of an array without NaN.
Kth(arr, k) ==
    arr[CHOOSE i \in 1..Len(arr) :
            /\ Cardinality({ j \in 1..Len(arr) : Less(arr[j], arr[i]) }) < k
            /\ k <= Cardinality({ j \in 1..Len(arr) : ~Less(arr[i], arr[j]) })]

\* np.median(arr): the middle element, the mean of the two middle ones.
ArrayMedian(arr) ==
    LET n == Len(arr) IN
    IF HasNaN(arr) THEN NaN
    ELSE IF n % 2 = 1 THEN Kth(arr, (n + 1) \div 2)
    ELSE Div(Add(Kth(arr, n \div 2), Kth(arr, n \div 2 + 1)), 2)

\* ddof = 1: the sum of squares is divided by N - 1.
StdDivisor(n) == n - 1

\* np.std(arr, ddof=1), for two elements or more: the differences are taken
\* from the mean as np.mean computed it, and the result is 0.0 when every
\* difference is zero.
ArrayStd(arr) ==
    LET mean == ArrayMean(arr) IN
    IF HasNaN(arr) THEN NaNStd
    ELSE IF \A k \in 1..Len(arr) : arr[k] = mean THEN ZeroStd
    ELSE RootStd(arr, mean, StdDivisor(Len(arr)))

\* percentile_keys
PercentileKeys == << 5, 10, 25, 50, 75, 90, 95 >>

\* num_bins: int = 20
NumBins == 20

\* np.histogram(arr, bins=num_bins) raises ValueError when the range of the
\* array is not finite.
HistogramRefuses(arr) == HasNaN(arr)

\* compute_stats, after the test of the field: the all-zero FieldStats for a
\* field without values, the aggregates of its values otherwise.
Stats(dc, field_name) ==
    LET values == ValuesDict(dc, field_name)
        arr == ArrayOf(values)
    IN  IF values = << >>
        THEN [field_name |-> field_name, count |-> 0, min_val |-> Num(0),
              max_val |-> Num(0), mean |-> Num(0), median |-> Num(0),
              std |-> ZeroStd, percentiles |-> << >>, histogram_bins |-> 0,
              histogram_counts |-> 0]
        ELSE [field_name |-> field_name, count |-> Len(arr), min_val |-> ArrayMin(arr),
              max_val |-> ArrayMax(arr), mean |-> ArrayMean(arr),
              median |-> ArrayMedian(arr),
              std |-> IF Len(arr) > 1 THEN ArrayStd(arr) ELSE ZeroStd,
              percentiles |-> PercentileKeys, histogram_bins |-> NumBins + 1,
              histogram_counts |-> NumBins]


Reverse(a) == [k \in 1..Len(a) |-> a[Len(a) + 1 - k]]

\* list.sort on the key x[2], as CPython sorts a list of fewer than 64 items:
\* the run that starts the list is found (a strictly descending one is
\* reversed) and every later item is put in place by binary insertion; all of
\* it with the one comparison key < key.
RECURSIVE DescendingRunEnd(_, _)
DescendingRunEnd(a, k) ==
    IF k < Len(a) /\ Lt(a[k + 1].value, a[k].value) THEN DescendingRunEnd(a, k + 1) ELSE k

RECURSIVE AscendingRunEnd(_, _)
AscendingRunEnd(a, k) ==
    IF k < Len(a) /\ ~Lt(a[k + 1].value, a[k].value) THEN AscendingRunEnd(a, k + 1) ELSE k

\* count_run: the length of the run and the list with the run in ascending order.
CountRun(a) ==
    IF Len(a) <= 1 THEN [len |-> Len(a), list |-> a]
    ELSE IF Lt(a[2].value, a[1].value)
    THEN LET e == DescendingRunEnd(a, 2)
         IN  [len |-> e, list |-> Reverse(SubSeq(a, 1, e)) \o SubSeq(a, e + 1, Len(a))]
    ELSE [len |-> AscendingRunEnd(a, 2), list |-> a]

RECURSIVE Bisect(_, _, _, _)
\* binarysort: where the pivot goes among the first r items (l, r count from 0).
Bisect(a, pivot, l, r) ==
    IF l < r
    THEN LET m == l + (r - l) \div 2
         IN  IF Lt(pivot.value, a[m + 1].value) THEN Bisect(a, pivot, l, m)
             ELSE Bisect(a, pivot, m + 1, r)
    ELSE l

RECURSIVE BinarySort(_, _)
\* binarysort: the first done items are in order; the others are inserted.
BinarySort(a, done) ==
    IF done >= Len(a) THEN a
    ELSE LET pivot == a[done + 1]
             l == Bisect(a, pivot, 0, done)
         IN  BinarySort(SubSeq(a, 1, l) \o << pivot >> \o SubSeq(a, l + 1, done)
                            \o SubSeq(a, done + 2, Len(a)),
                        done + 1)

\* items.sort(key=lambda x: x[2], reverse=reverse): a reversed sort reverses the
\* list, sorts it and reverses it again.
ListSort(items, reverse) ==
    LET a == IF reverse THEN Reverse(items) ELSE items
        run == CountRun(a)
        sorted == BinarySort(run.list, run.len)
    IN  IF reverse THEN Reverse(sorted) ELSE sorted

\* compute_ranking, after the test of the field.
Ranking(dc, nc, field_name, ascending) ==
    LET values == ValuesDict(dc, field_name)
        items == [k \in 1..Len(values) |->
                     [feature_id |-> values[k].id,
                      name |-> NamesGet(nc, values[k].id),
                      value |-> values[k].val]]
        sorted == ListSort(items, ~ascending)
    IN  [i \in 1..Len(sorted) |->
            [feature_id |-> sorted[i].feature_id, name |-> sorted[i].name,
             value |-> sorted[i].value, rank |-> i]]

\* A slip: only the values below this one are counted.
CountsToward_Strict(v, value) == Lt(v, value)

\* get_feature_context: all_values <= value
CountsToward(v, value) == Le(v, value)

\* round(x, 1) of x = 100 * c / n, in tenths: the nearest tenth, the even one
\* when two are as near.
RoundTenths(c, n) ==
    LET q == (1000 * c) \div n
        r == (1000 * c) % n
    IN  IF 2 * r < n THEN q
        ELSE IF 2 * r > n THEN q + 1
        ELSE IF q % 2 = 0 THEN q ELSE q + 1

\* next((r.rank for r in ranking if r.feature_id == feature_id), len(ranking))
FirstRank(ranking, fid) ==
    IF \E i \in 1..Len(ranking) : ranking[i].feature_id = fid
    THEN ranking[CHOOSE i \in 1..Len(ranking) :
                     /\ ranking[i].feature_id = fid
                     /\ \A j \in 1..(i - 1) : ranking[j].feature_id # fid].rank
    ELSE Len(ranking)

\* std = float(np.std(all_values, ddof=1)) if len(all_values) > 1 else 1.0
ContextStd(all_values) == IF Len(all_values) > 1 THEN ArrayStd(all_values) ELSE UnitStd

\* std > 0
Positive(std) == std.kind \in { "one", "root" }

\* round((value - mean) / std if std > 0 else 0.0, 3): NaN when value - mean
\* is, 0.0 when it is zero.
Deviation(value, mean, std) ==
    IF ~Positive(std) THEN ZeroDeviation
    ELSE IF value.nan \/ mean.nan THEN NaNDeviation
    ELSE IF value = mean THEN ZeroDeviation
    ELSE RatioDeviation(value, mean, std)

\* get_feature_context, after the tests of the field and of the record.
Context(dc, nc, fid, field_name) ==
    LET values == ValuesDict(dc, field_name)
        value == ValueOf(values, fid)
        all_values == ArrayOf(values)
        below == Cardinality({ k \in 1..Len(all_values) : CountsToward(all_values[k], value) })
    IN  [feature_id |-> fid,
         name |-> NamesGet(nc, fid),
         value |-> value,
         rank |-> FirstRank(Ranking(dc, nc, field_name, FALSE), fid),
         total_features |-> Len(values),
         deviation_from_mean |->
             Deviation(value, ArrayMean(all_values), ContextStd(all_values)),
         percentile |-> RoundTenths(below, Len(all_values)),
         is_max |-> FEq(value, ArrayMax(all_values)),
         is_min |-> FEq(value, ArrayMin(all_values))]

----------------------------------------------------------------------------
\* DataEngine: the calls

\* load
load(lyr, is_null, is_valid, id_field, name_field, indicator_fields) ==
    LET args == [NoArgs EXCEPT !.layer_null = is_null, !.layer_valid = is_valid,
                               !.id_field = id_field, !.name_field = name_field,
                               !.indicator_fields = indicator_fields]
        missing == FirstMissing(<< id_field, name_field >> \o indicator_fields, LayerFields)
        held == feature_ids(names_cache)
    IN
    /\ driver = "none"
    /\ IF ~LayerUsable(is_null, is_valid)
       THEN /\ result' =
                   [Raised("load", args, "ValueError",
                           [NoMessage EXCEPT !.text = "Invalid or null vector layer."])
                    EXCEPT !.before = held]
            /\ UNCHANGED << engine_fields, names_cache >>
       ELSE IF missing # ""
       THEN /\ result' =
                   [Raised("load", args, "ValueError",
                           [text |-> "Field not found in layer", field |-> missing,
                            available |-> SortedLayerFields])
                    EXCEPT !.before = held]
            /\ UNCHANGED << engine_fields, names_cache >>
       ELSE /\ load_assigns(lyr, id_field, name_field, indicator_fields)
            /\ names_cache' = LoadNames(lyr, ClearNames(names_cache))
            /\ result' = [Raised("load", args, "", NoMessage) EXCEPT !.before = held]
    /\ UNCHANGED << layer, project, _status_cache, importable, run_vars >>

\* compute_stats
compute_stats(field_name) ==
    LET args == [NoArgs EXCEPT !.field_name = field_name] IN
    /\ driver = "none"
    /\ result' =
           IF Unloaded(_data_cache, field_name)
           THEN Raised("compute_stats", args, "KeyError",
                       [NoMessage EXCEPT !.text = "Field not loaded", !.field = field_name])
           ELSE IF HistogramRefuses(ArrayOf(ValuesDict(_data_cache, field_name)))
           THEN Raised("compute_stats", args, "ValueError",
                       [NoMessage EXCEPT !.text = "autodetected range is not finite"])
           ELSE Call("compute_stats", args, "", NoMessage,
                     Stats(_data_cache, field_name), << >>, NoContext)
    /\ UNCHANGED << layer, project, _status_cache, importable, run_vars, engine_fields, names_cache >>

\* compute_ranking
compute_ranking(field_name, ascending) ==
    LET args == [NoArgs EXCEPT !.field_name = field_name, !.ascending = ascending] IN
    /\ driver = "none"
    /\ result' =
           IF Unloaded(_data_cache, field_name)
           THEN Raised("compute_ranking", args, "KeyError",
                       [NoMessage EXCEPT !.text = "Field not loaded", !.field = field_name])
           ELSE Call("compute_ranking", args, "", NoMessage, NoStats,
                     Ranking(_data_cache, names_cache, field_name, ascending), NoContext)
    /\ UNCHANGED << layer, project, _status_cache, importable, run_vars, engine_fields, names_cache >>

\* get_feature_context
get_feature_context(feature_id, field_name) ==
    LET args == [NoArgs EXCEPT !.field_name = field_name, !.feature_id = feature_id] IN
    /\ driver = "none"
    /\ result' =
           IF Unloaded(_data_cache, field_name)
           THEN Raised("get_feature_context", args, "KeyError",
                       [NoMessage EXCEPT !.text = "Field not loaded", !.field = field_name])
           ELSE IF ~HasKey(ValuesDict(_data_cache, field_name), feature_id)
           THEN Raised("get_feature_context", args, "KeyError",
                       [NoMessage EXCEPT !.text = "Feature ID not found in field",
                                         !.field = field_name])
           ELSE Call("get_feature_context", args, "", NoMessage, NoStats, << >>,
                     Context(_data_cache, names_cache, feature_id, field_name))
    /\ UNCHANGED << layer, project, _status_cache, importable, run_vars, engine_fields, names_cache >>

\* The attribute values explored in the field "pop": an object float()
\* refuses, the int 0, a str that spells a number, and a float NaN.
PopValues == { PyOther, PyInt(0), PyStr(<< "0", ".", "1" >>), PyFloat(NaN) }

\* The values of the field "area", which the rows of a layer take in turn:
\* None, the empty str, a str that spells no number, an int.
AreaValues == << PyNone, PyStr(<< >>), PyStr(<< "abc" >>), PyInt(3) >>

\* The layer whose rows hold the values pops in "pop"; ids are unique and not
\* in ascending order.
DatasetOf(pops) ==
    [i \in 1..Len(pops) |->
        [id |-> Len(pops) + 1 - i, name |-> << "name", ToString(Len(pops) + 1 - i) >>,
         pop |-> pops[i],
         area |-> AreaValues[((i + 2 * Len(pops)) % Len(AreaValues)) + 1]]]

Datasets == { DatasetOf(pops) : pops \in UNION { [1..n -> PopValues] : n \in 0..MaxRows } }

\* Another layer of the project: it shares the id 1 with the layers above,
\* under another name and with other values.
OtherLayer ==
    << [id |-> MaxRows + 2, name |-> << "other", ToString(MaxRows + 2) >>,
        pop |-> PyInt(2), area |-> PyNone],
       [id |-> 1, name |-> << "other", "1" >>, pop |-> PyStr(<< >>), area |-> PyInt(1)] >>

\* The calls of load explored: every layer with the indicator lists below, and
\* the calls that validation refuses.
IndicatorLists == { << "pop" >>, << "pop", "area" >>, << >> }

LoadCalls ==
    LET good == [NoArgs EXCEPT !.layer_valid = TRUE, !.id_field = "id",
                               !.name_field = "name", !.indicator_fields = << "pop" >>]
    IN  { [good EXCEPT !.indicator_fields = inds] : inds \in IndicatorLists }
        \cup { [good EXCEPT !.layer_null = TRUE],
               [good EXCEPT !.layer_valid = FALSE],
               [good EXCEPT !.id_field = "ghost"],
               [good EXCEPT !.name_field = "ghost"],
               [good EXCEPT !.indicator_fields = << "pop", "ghost" >>],
               [good EXCEPT !.name_field = "ghost", !.indicator_fields = << "ghost" >>] }

QueryFields == { "pop", "area", "ghost" }
QueryIds == 1..(MaxRows + 2)

\* A DataEngine used directly: the state after construction, with a layer of
\* the project to load.
EngineInit ==
    /\ layer \in Datasets
    /\ driver = "none"
    /\ pc = "idle"
    /\ config = build_config("NONE")
    /\ names_cache = << >>
    /\ cancelled = FALSE
    /\ batch_paths = << >>
    /\ batch_errors = << >>
    /\ consecutive_errors = 0
    /\ batch_ids = << >>
    /\ batch_index = 0
    /\ batch_total = 0
    /\ batch_base_layer = NoLayer
    /\ project_layers = 0
    /\ project = ProjectAsOpened
    /\ _status_cache = EmptyCache
    /\ importable = { }
    /\ report = << >>
    /\ log = << >>
    /\ _layer = << >>
    /\ _id_field = ""
    /\ _name_field = ""
    /\ _indicator_fields = << >>
    /\ _data_cache = EmptyDict
    /\ result = Raised("__init__", NoArgs, "", NoMessage)

EngineNext ==
    \/ \E lyr \in { layer, OtherLayer }, c \in LoadCalls :
          load(lyr, c.layer_null, c.layer_valid, c.id_field, c.name_field,
               c.indicator_fields)
    \/ \E field_name \in QueryFields : compute_stats(field_name)
    \/ \E field_name \in QueryFields, ascending \in BOOLEAN :
          compute_ranking(field_name, ascending)
    \/ \E feature_id \in QueryIds, field_name \in QueryFields :
          get_feature_context(feature_id, field_name)

EngineSpec == EngineInit /\ [][EngineNext]_vars

----------------------------------------------------------------------------
\* The static helpers of ReportComposer and MapRenderer, called directly

\* The pieces of the names explored: a run of letters, the characters kept,
\* quotes, path separators and characters of no other use.
NameChars == { "O", " ", "\t", ".", "'", "\"", "/", "\\", "*" }

Names == UNION { [1..n -> NameChars] : n \in 0..MaxNameLen }

\* class BaseMapType: the names of its members.
BaseMapType ==
    { "NONE", "OSM", "POSITRON", "DARK_MATTER", "GOOGLE_MAPS", "GOOGLE_SATELLITE",
      "GOOGLE_HYBRID", "ESRI_SATELLITE", "ESRI_STREET", "ESRI_TOPOGRAPHY",
      "BING_SATELLITE" }

\* The inputs of the helpers: a record of the layer (its id and its name) and
\* the base map of the job.
HelperInput(fid, name, bm) == [id |-> fid, name |-> name, base_map |-> bm]

\* The ids explored: every name as a str id, an int, two floats and None.
OtherIds == { PyInt(7), PyFloat(Num(2)), PyFloat(NaN), PyNone }

HelperInputs ==
    { HelperInput(PyStr(name), name, "NONE") : name \in Names }
        \cup { HelperInput(fid, << "O" >>, "NONE") : fid \in OtherIds }
        \cup { HelperInput(PyInt(7), << "O" >>, bm) : bm \in BaseMapType }

\* str(feature_id), f"{feature_id}": a str is its own text, an int its digits,
\* a float its repr, None the word None.
str(v) ==
    IF v.t = "str" THEN v.s
    ELSE IF v.t = "NoneType" THEN << "None" >>
    ELSE IF v.val.nan THEN << "nan" >>
    ELSE LET n == CHOOSE k \in 0..9 : Num(k) = v.val IN
         IF v.t = "int" THEN << ToString(n) >> ELSE << ToString(n), ".", "0" >>

RECURSIVE replace(_, _, _)
\* s.replace(old, new), old one character.
replace(s, old, new) ==
    IF s = << >> THEN << >>
    ELSE (IF Head(s) = old THEN new ELSE << Head(s) >>) \o replace(Tail(s), old, new)

\* A slip: the single quotes of the id are left as they are.
EscapedQuote_Single == << "'" >>

\* "''"
EscapedQuote == << "'", "'" >>

\* MapRenderer._build_filter_expression
FilterExpression(feature_id, id_field) ==
    IF feature_id.t \in { "int", "float" }
    THEN << "\"", id_field, "\"", " ", "=", " " >> \o str(feature_id)
    ELSE << "\"", id_field, "\"", " ", "=", " ", "'" >>
             \o replace(str(feature_id), "'", EscapedQuote) \o << "'" >>

\* The registry of tile providers, each string a sequence of its characters.
_BASE_MAP_URLS ==
    ("OSM" :> [url |->
        << "h", "t", "t", "p", "s", ":", "/", "/", "t", "i", "l", "e", ".",
           "o", "p", "e", "n", "s", "t", "r", "e", "e", "t", "m", "a", "p",
           ".", "o", "r", "g", "/", "{", "z", "}", "/", "{", "x", "}", "/",
           "{", "y", "}", ".", "p", "n", "g" >>,
        zmax |-> << "1", "9" >>, zmin |-> << "0" >>]) @@
    ("POSITRON" :> [url |->
        << "h", "t", "t", "p", "s", ":", "/", "/", "a", ".", "b", "a", "s",
           "e", "m", "a", "p", "s", ".", "c", "a", "r", "t", "o", "c", "d",
           "n", ".", "c", "o", "m", "/", "l", "i", "g", "h", "t", "_", "a",
           "l", "l", "/", "{", "z", "}", "/", "{", "x", "}", "/", "{", "y",
           "}", "@", "2", "x", ".", "p", "n", "g" >>,
        zmax |-> << "2", "0" >>, zmin |-> << "0" >>]) @@
    ("DARK_MATTER" :> [url |->
        << "h", "t", "t", "p", "s", ":", "/", "/", "a", ".", "b", "a", "s",
           "e", "m", "a", "p", "s", ".", "c", "a", "r", "t", "o", "c", "d",
           "n", ".", "c", "o", "m", "/", "d", "a", "r", "k", "_", "a", "l",
           "l", "/", "{", "z", "}", "/", "{", "x", "}", "/", "{", "y", "}",
           "@", "2", "x", ".", "p", "n", "g" >>,
        zmax |-> << "2", "0" >>, zmin |-> << "0" >>]) @@
    ("GOOGLE_MAPS" :> [url |->
        << "h", "t", "t", "p", "s", ":", "/", "/", "m", "t", "1", ".", "g",
           "o", "o", "g", "l", "e", ".", "c", "o", "m", "/", "v", "t", "/",
           "l", "y", "r", "s", "=", "m", "&", "x", "=", "{", "x", "}", "&",
           "y", "=", "{", "y", "}", "&", "z", "=", "{", "z", "}" >>,
        zmax |-> << "1", "9" >>, zmin |-> << "0" >>]) @@
    ("GOOGLE_SATELLITE" :> [url |->
        << "h", "t", "t", "p", "s", ":", "/", "/", "m", "t", "1", ".", "g",
           "o", "o", "g", "l", "e", ".", "c", "o", "m", "/", "v", "t", "/",
           "l", "y", "r", "s", "=", "s", "&", "x", "=", "{", "x", "}", "&",
           "y", "=", "{", "y", "}", "&", "z", "=", "{", "z", "}" >>,
        zmax |-> << "1", "9" >>, zmin |-> << "0" >>]) @@
    ("GOOGLE_HYBRID" :> [url |->
        << "h", "t", "t", "p", "s", ":", "/", "/", "m", "t", "1", ".", "g",
           "o", "o", "g", "l", "e", ".", "c", "o", "m", "/", "v", "t", "/",
           "l", "y", "r", "s", "=", "y", "&", "x", "=", "{", "x", "}", "&",
           "y", "=", "{", "y", "}", "&", "z", "=", "{", "z", "}" >>,
        zmax |-> << "1", "9" >>, zmin |-> << "0" >>]) @@
    ("ESRI_SATELLITE" :> [url |->
        << "h", "t", "t", "p", "s", ":", "/", "/", "s", "e", "r", "v", "e",
           "r", ".", "a", "r", "c", "g", "i", "s", "o", "n", "l", "i", "n",
           "e", ".", "c", "o", "m", "/", "A", "r", "c", "G", "I", "S", "/",
           "r", "e", "s", "t", "/", "s", "e", "r", "v", "i", "c", "e", "s",
           "/", "W", "o", "r", "l", "d", "_", "I", "m", "a", "g", "e", "r",
           "y", "/", "M", "a", "p", "S", "e", "r", "v", "e", "r", "/", "t",
           "i", "l", "e", "/", "{", "z", "}", "/", "{", "y", "}", "/", "{",
           "x", "}" >>,
        zmax |-> << "1", "7" >>, zmin |-> << "0" >>]) @@
    ("ESRI_STREET" :> [url |->
        << "h", "t", "t", "p", "s", ":", "/", "/", "s", "e", "r", "v", "e",
           "r", ".", "a", "r", "c", "g", "i", "s", "o", "n", "l", "i", "n",
           "e", ".", "c", "o", "m", "/", "A", "r", "c", "G", "I", "S", "/",
           "r", "e", "s", "t", "/", "s", "e", "r", "v", "i", "c", "e", "s",
           "/", "W", "o", "r", "l", "d", "_", "S", "t", "r", "e", "e", "t",
           "_", "M", "a", "p", "/", "M", "a", "p", "S", "e", "r", "v", "e",
           "r", "/", "t", "i", "l", "e", "/", "{", "z", "}", "/", "{", "y",
           "}", "/", "{", "x", "}" >>,
        zmax |-> << "1", "7" >>, zmin |-> << "0" >>]) @@
    ("ESRI_TOPOGRAPHY" :> [url |->
        << "h", "t", "t", "p", "s", ":", "/", "/", "s", "e", "r", "v", "i",
           "c", "e", "s", ".", "a", "r", "c", "g", "i", "s", "o", "n", "l",
           "i", "n", "e", ".", "c", "o", "m", "/", "A", "r", "c", "G", "I",
           "S", "/", "r", "e", "s", "t", "/", "s", "e", "r", "v", "i", "c",
           "e", "s", "/", "W", "o", "r", "l", "d", "_", "T", "o", "p", "o",
           "_", "M", "a", "p", "/", "M", "a", "p", "S", "e", "r", "v", "e",
           "r", "/", "t", "i", "l", "e", "/", "{", "z", "}", "/", "{", "y",
           "}", "/", "{", "x", "}" >>,
        zmax |-> << "2", "0" >>, zmin |-> << "0" >>]) @@
    ("BING_SATELLITE" :> [url |->
        << "h", "t", "t", "p", ":", "/", "/", "e", "c", "n", ".", "t", "3",
           ".", "t", "i", "l", "e", "s", ".", "v", "i", "r", "t", "u", "a",
           "l", "e", "a", "r", "t", "h", ".", "n", "e", "t", "/", "t", "i",
           "l", "e", "s", "/", "a", "{", "q", "}", ".", "j", "p", "e", "g",
           "?", "g", "=", "1" >>,
        zmax |-> << "1", "9" >>, zmin |-> << "1" >>])

\* urllib.parse.quote: the characters it never encodes (letters, digits, "_.-~");
\* of these the registry uses the letters, the digits and "_", "." .
Unreserved(c) ==
    c \notin { "/", ":", "?", "=", "&", "{", "}", "@", "%", " " }

\* The two hexadecimal digits of the characters quote encodes here.
PercentCode ==
    ("/" :> << "2", "F" >>) @@ (":" :> << "3", "A" >>) @@ ("?" :> << "3", "F" >>) @@
    ("=" :> << "3", "D" >>) @@ ("&" :> << "2", "6" >>) @@ ("{" :> << "7", "B" >>) @@
    ("}" :> << "7", "D" >>) @@ ("@" :> << "4", "0" >>) @@ ("%" :> << "2", "5" >>) @@
    (" " :> << "2", "0" >>)

\* safe="/:?=" together with "&"
QuoteSafe_WithAmpersand == { "/", ":", "?", "=", "&" }

\* quote(raw_url, safe="/:?=")
QuoteSafe == { "/", ":", "?", "=" }

RECURSIVE quote(_, _)
quote(s, safe) ==
    IF s = << >> THEN << >>
    ELSE (IF Unreserved(s[1]) \/ s[1] \in safe THEN << s[1] >>
          ELSE << "%" >> \o PercentCode[s[1]])
         \o quote(Tail(s), safe)

\* urllib.parse.unquote: "%" and two hexadecimal digits become the character
\* they encode; anything else is kept.
unquote(s) ==
    LET escape(k) == /\ s[k] = "%"
                     /\ k + 2 <= Len(s)
                     /\ \E c \in DOMAIN PercentCode : PercentCode[c] = << s[k + 1], s[k + 2] >>
        starts == { k \in 1..Len(s) : ~ \E d \in { k - 2, k - 1 } : d >= 1 /\ escape(d) }
        start(n) == CHOOSE k \in starts : Cardinality({ d \in starts : d < k }) = n - 1
        decoded(k) == IF escape(k)
                      THEN CHOOSE c \in DOMAIN PercentCode :
                               PercentCode[c] = << s[k + 1], s[k + 2] >>
                      ELSE s[k]
    IN [n \in 1..Cardinality(starts) |-> decoded(start(n))]

\* uri = f"type=xyz&url={encoded_url}&zmax={zmax}&zmin={zmin}"
BaseMapUri(bm_type) ==
    LET entry == _BASE_MAP_URLS[bm_type] IN
    << "t", "y", "p", "e", "=", "x", "y", "z", "&", "u", "r", "l", "=" >>
    \o quote(entry.url, QuoteSafe)
    \o << "&", "z", "m", "a", "x", "=" >> \o entry.zmax
    \o << "&", "z", "m", "i", "n", "=" >> \o entry.zmin

\* ReportComposer._create_base_map_layer(config.base_map), called directly:
\* the URI it hands to QgsRasterLayer (none for BaseMapType.NONE), the layer it
\* returns, and the registration of a valid layer in the project.
_create_base_map_layer(valid) ==
    /\ driver = "none"
    /\ project_layers < MaxBaseLayers
    /\ LET bm_type == config.base_map
           entry == IF bm_type \in DOMAIN _BASE_MAP_URLS THEN "found" ELSE "missing"
           ret == IF entry = "missing" THEN NoLayer ELSE CreateBaseMapLayer(bm_type, valid)
       IN /\ result' = [op |-> "_create_base_map_layer", bm_type |-> bm_type,
                        uri |-> IF bm_type = "NONE" \/ entry = "missing" THEN << >>
                                ELSE BaseMapUri(bm_type),
                        ret |-> ret]
          /\ project_layers' = IF ret # NoLayer THEN project_layers + 1
                               ELSE project_layers
    /\ UNCHANGED << layer, project, _status_cache, importable, driver, pc, config, cancelled, batch_paths, batch_errors,
                    consecutive_errors, batch_ids, batch_index, batch_total,
                    batch_base_layer, report, log, engine_fields, names_cache >>

\* class MapStyle: the names of its members.
MapStyle == { "SINGLE", "GRADUATED", "CATEGORIZED" }

\* The methods of MapRenderer that apply a renderer or a symbol to a layer.
MapRendererMethods ==
    { "apply_style", "_apply_single_symbol", "_apply_graduated_symbol",
      "_apply_categorized_symbol", "_apply_graduated_renderer" }

\* MapStyle.<member>, self._map_renderer.<method>: AttributeError for a name
\* that is not defined.
Lookup(name, defined) == IF name \in defined THEN "" ELSE "AttributeError"

\* ReportComposer._apply_renderer: what it raises ("" when it returns). The
\* members it compares config.map_style with are looked up before the
\* comparison, the method after it.
ApplyRenderer(map_style) ==
    IF Lookup("CHOROPLETH", MapStyle) # "" THEN Lookup("CHOROPLETH", MapStyle)
    ELSE IF map_style = "CHOROPLETH"
    THEN Lookup("_apply_graduated_renderer", MapRendererMethods)
    ELSE IF Lookup("CATEGORICAL", MapStyle) # "" THEN Lookup("CATEGORICAL", MapStyle)
    ELSE IF map_style = "CATEGORICAL"
    THEN Lookup("_apply_categorical_renderer", MapRendererMethods)
    ELSE ""

_apply_renderer(map_style) ==
    /\ driver = "none"
    /\ result' = [op |-> "_apply_renderer", map_style |-> map_style,
                  raised |-> ApplyRenderer(map_style)]
    /\ UNCHANGED << layer, project, _status_cache, importable, run_vars, engine_fields, names_cache >>

_build_filter_expression(id_field) ==
    /\ driver = "none"
    /\ result' = [op |-> "_build_filter_expression", feature_id |-> layer[1].id,
                  id_field |-> id_field,
                  ret |-> FilterExpression(layer[1].id, id_field)]
    /\ UNCHANGED << layer, project, _status_cache, importable, run_vars, engine_fields, names_cache >>

\* ReportComposer._sanitize_filename
_sanitize_filename ==
    /\ driver = "none"
    /\ result' = [op |-> "_sanitize_filename", name |-> layer[1].name,
                  ret |-> safe_name(layer[1].name)]
    /\ UNCHANGED << layer, project, _status_cache, importable, run_vars, engine_fields, names_cache >>

\* The helpers used directly: the state after construction, with the record
\* and the configuration they are given.
HelperInit ==
    /\ \E inp \in HelperInputs :
          /\ layer = << [id |-> inp.id, name |-> inp.name, pop |-> PyNone, area |-> PyNone] >>
          /\ config = build_config(inp.base_map)
    /\ driver = "none"
    /\ pc = "idle"
    /\ names_cache = << >>
    /\ cancelled = FALSE
    /\ batch_paths = << >>
    /\ batch_errors = << >>
    /\ consecutive_errors = 0
    /\ batch_ids = << >>
    /\ batch_index = 0
    /\ batch_total = 0
    /\ batch_base_layer = NoLayer
    /\ project_layers = 0
    /\ project = ProjectAsOpened
    /\ _status_cache = EmptyCache
    /\ importable = { }
    /\ report = << >>
    /\ log = << >>
    /\ _layer = << >>
    /\ _id_field = ""
    /\ _name_field = ""
    /\ _indicator_fields = << >>
    /\ _data_cache = EmptyDict
    /\ result = Raised("__init__", NoArgs, "", NoMessage)

HelperNext ==
    \/ _sanitize_filename
    \/ \E id_field \in { "id", "name" } : _build_filter_expression(id_field)
    \/ \E map_style \in MapStyle : _apply_renderer(map_style)
    \/ \E valid \in BOOLEAN : _create_base_map_layer(valid)

HelperSpec == HelperInit /\ [][HelperNext]_vars

----------------------------------------------------------------------------
\* Reading the history

Events(kind) == SelectSeq(log, LAMBDA e : e.ev = kind)

\* The render attempts of the run, in order.
Renders == Events("render")

RenderedIds == LET rs == Renders IN [k \in 1..Len(rs) |-> rs[k].fid]

Succeeded == SelectSeq(Renders, LAMBDA e : e.ok)
Failed == SelectSeq(Renders, LAMBDA e : ~e.ok)

\* The outcomes told to the view or the caller, in order.
Outcomes == LET os == Events("outcome") IN [k \in 1..Len(os) |-> os[k].name[1]]

RECURSIVE TrailingFailures(_)
\* The length of the run of failed attempts that ends the sequence.
TrailingFailures(rs) ==
    IF rs = << >> THEN 0
    ELSE IF rs[Len(rs)].ok THEN 0
    ELSE 1 + TrailingFailures(SubSeq(rs, 1, Len(rs) - 1))

\* The positions in the history of the events of one kind.
Positions(kind) == { p \in 1..Len(log) : log[p].ev = kind }

\* The number of render attempts among the first p events.
RendersUpTo(p) == Cardinality({ q \in 1..p : log[q].ev = "render" })

IsPrefix(s, t) == Len(s) <= Len(t) /\ \A k \in 1..Len(s) : s[k] = t[k]

\* The run is one of the two step-driven loops.
Stepped == driver \in { "ctl", "dlg" }

\* The breaker has ended the run.
BreakerOutcome ==
    /\ report # << >>
    /\ report[Len(report)].kind = "error"
    /\ report[Len(report)].msg = BreakerMessage

----------------------------------------------------------------------------
\* C1  Circuit breaker (WizardController): three failed render attempts in a
\* row end the run in the step of the third failure.  The view then holds the
\* circuit-breaker error, which no failure of preparation produces; the error
\* follows the failing render at once and nothing is scheduled, stepped or
\* rendered after it; no run ever has a render after three failures in a row;
\* and the output paths are those of the successful attempts before.
C1_CircuitBreaker ==
    driver = "ctl" =>
        LET rs == Renders
            ok == Succeeded
        IN
        /\ \A k \in 1..Len(rs) :
               (k >= 3 /\ ~rs[k].ok /\ ~rs[k - 1].ok /\ ~rs[k - 2].ok) => k = Len(rs)
        /\ TrailingFailures(rs) >= CircuitBreakerThreshold =>
               /\ pc = "done"
               /\ Len(report) = 1
               /\ BreakerOutcome
               /\ BreakerMessage \notin FailPoints(WizardStages)
               /\ \E p \in 1..Len(log) - 1 :
                      /\ log[p].ev = "render"
                      /\ log[p + 1] = EvOutcome("error")
                      /\ \A q \in p + 2 .. Len(log) : log[q].ev = "removeMapLayer"
               /\ Len(batch_paths) = Len(ok)
               /\ \A k \in 1..Len(ok) : batch_paths[k] = PathOf(ok[k].name)

\* Records 1-2 succeed and 3, 4, 5 fail: stopped after the 5th attempt, 2 paths.
C1_Witness ==
    /\ driver = "ctl"
    /\ pc = "done"
    /\ Len(Renders) = 5
    /\ [k \in 1..5 |-> Renders[k].ok] = << TRUE, TRUE, FALSE, FALSE, FALSE >>
    /\ Len(batch_paths) = 2
    /\ batch_total > 5
    /\ BreakerOutcome

----------------------------------------------------------------------------
\* C2  Cancellation (both step-driven loops): once cancel has been requested,
\* no render attempt follows it in the history; the request falls between two
\* steps (right after a step was scheduled), so an attempt that has begun is
\* complete before it; the paths and error strings are those of the attempts made
\* before the request; and the step after the request ends the run with the
\* Cancelled outcome and nothing else.
C2_CancelPreservesResults ==
    Stepped =>
        LET ok == Succeeded
            ko == Failed
        IN
        \A p \in Positions("cancel") :
            /\ p > 1 /\ log[p - 1].ev = "timer"
            /\ \A q \in p + 1 .. Len(log) :
                   log[q].ev \in { "step", "removeMapLayer", "outcome" }
            /\ cancelled
            /\ Len(batch_paths) = RendersUpTo(p) - Len(batch_errors)
            /\ Len(batch_paths) = Len(ok)
            /\ \A k \in 1..Len(ok) : batch_paths[k] = PathOf(ok[k].name)
            /\ Len(batch_errors) = Len(ko)
            /\ \A k \in 1..Len(ko) : batch_errors[k] = ErrorString(ko[k].name, RenderError)
            /\ pc = "done" =>
                   /\ Outcomes = << "cancelled" >>
                   /\ Len(report) = 1
                   /\ report[1].kind = "cancelled"
                   /\ Len(Events("step")) = RendersUpTo(p) + 1

\* Cancelled after 2 successful records out of 5.
C2_Witness ==
    /\ driver = "ctl"
    /\ pc = "done"
    /\ cancelled
    /\ batch_total = 5
    /\ Len(batch_paths) = 2
    /\ Len(batch_errors) = 0
    /\ Outcomes = << "cancelled" >>

----------------------------------------------------------------------------
\* C3  Fatal setup (start_generation, _generate_reports): when a step of
\* preparation raises, the view's error handler is told once, with that
\* exception; no step is scheduled or run and no record is rendered.
C3_FatalSetup ==
    (Stepped /\ report # << >> /\ report[1].msg \in FailPoints(WizardStages)) =>
        /\ Len(report) = 1
        /\ report[1].kind = "error"
        /\ Outcomes = << "error" >>
        /\ pc = "done"
        /\ Events("timer") = << >>
        /\ Events("step") = << >>
        /\ Renders = << >>
        /\ batch_paths = << >>

\* Creating the output directory fails, after the base-map layer was created.
C3_Witness ==
    /\ driver = "ctl"
    /\ report # << >>
    /\ report[1].msg = "mkdir"
    /\ batch_base_layer = BaseMapLayer

----------------------------------------------------------------------------
\* C4  Teardown exactly once (every driver): a base-map layer registered in the
\* project during preparation is never removed more often than it was added,
\* and once the run has reached its terminal outcome it has been removed.
C4_TeardownExactlyOnce ==
    /\ Len(Events("removeMapLayer")) <= Len(Events("addMapLayer"))
    /\ pc = "done" => Len(Events("removeMapLayer")) = Len(Events("addMapLayer"))

----------------------------------------------------------------------------
\* Preparation has raised: the first thing reported is one of its steps.
PrepFailed ==
    /\ report # << >>
    /\ report[1].msg \in FailPoints(WizardStages) \cup FailPoints(BatchStages)

\* C5  Per-attempt bookkeeping (WizardController): at every step boundary the
\* paths are those of the successful attempts and the error strings are
\* "{name}: {error}" of the failed ones, in order, one per attempt; the counter is
\* the length of the trailing run of failures; and while the breaker has not
\* tripped, len(paths) + len(errors) is the current index and the counter is
\* below 3.
C5_Bookkeeping ==
    (driver = "ctl" /\ ~PrepFailed) =>
        LET ok == Succeeded
            ko == Failed
        IN
        /\ Len(batch_paths) = Len(ok)
        /\ \A k \in 1..Len(ok) :
               batch_paths[k] = PathOf(NamesGet(names_cache, ok[k].fid))
        /\ Len(batch_errors) = Len(ko)
        /\ \A k \in 1..Len(ko) :
               batch_errors[k] = << NamesGet(names_cache, ko[k].fid), RenderError >>
        /\ consecutive_errors = TrailingFailures(Renders)
        /\ ~BreakerOutcome =>
               /\ Len(batch_paths) + Len(batch_errors) = batch_index
               /\ consecutive_errors < CircuitBreakerThreshold

\* Success, failure, success, failure, failure: the counter is 2 and a step is pending.
C5_Witness ==
    /\ driver = "ctl"
    /\ pc = "timer"
    /\ [k \in 1..Len(Renders) |-> Renders[k].ok] = << TRUE, FALSE, TRUE, FALSE, FALSE >>
    /\ consecutive_errors = 2
    /\ batch_index = 5

----------------------------------------------------------------------------
\* C6  Reporting of partial runs (the three batch loops): the terminal outcome
\* of a run in which a record has failed reports the number (or the list) of
\* succeeded artifacts, the failed record not among them, and the error strings
\* accumulated so far, in full or capped for display.
C6_TerminalReportsBoth ==
    (driver \in { "ctl", "dlg", "gb" } /\ pc = "done" /\ Failed # << >>) =>
        LET r == report[Len(report)] IN
        /\ \/ r.has_count /\ r.count = Len(Succeeded)
           \/ r.has_paths /\ Len(r.paths) = Len(Succeeded)
        /\ r.has_errors
        /\ \/ Len(r.errors) = Len(Failed)
           \/ Len(r.errors) = ErrorDisplayCap /\ Len(Failed) > ErrorDisplayCap

----------------------------------------------------------------------------
\* C7  Run state machine and termination (WizardController): before
\* start_generation the controller is idle; afterwards a step is pending or the
\* run is over.  The run is over exactly when the view has been told one
\* outcome, after which nothing is scheduled, stepped or rendered, and it never
\* hears a second one.  While a step is pending it can run, each step
\* that does not end the run advances the index, and the run takes at most
\* total + 1 steps.  Completed is reported only with the index at the end of
\* the list, every record attempted, the cancel flag unset and the breaker not
\* tripped.
C7_RunStateMachine ==
    /\ (driver = "none") <=> (pc = "idle")
    /\ driver = "ctl" =>
           /\ pc \in { "timer", "done" }
           /\ Len(report) <= 1
           /\ Len(Outcomes) = Len(report)
           /\ (pc = "done") <=> (Len(report) = 1)
           /\ \A k \in 1..Len(Outcomes) :
                  Outcomes[k] \in { "complete", "cancelled", "error" }
           /\ \A p \in 1..Len(log) :
                  log[p].ev = "outcome" =>
                      \A q \in p + 1 .. Len(log) : log[q].ev = "removeMapLayer"
           /\ pc = "timer" =>
                  /\ log[Len(log)].ev \in { "timer", "cancel" }
                  /\ Len(Events("step")) = batch_index
                  /\ batch_index <= batch_total
                  /\ ENABLED (\E ok \in BOOLEAN : process_next_report(ok))
           /\ Len(Events("step")) <= batch_total + 1
           /\ Outcomes = << "complete" >> =>
                  /\ batch_index = batch_total
                  /\ Len(Renders) = batch_total
                  /\ ~cancelled
                  /\ consecutive_errors < CircuitBreakerThreshold
                  /\ LET rs == Renders IN
                     \A k \in 3..Len(rs) : rs[k].ok \/ rs[k - 1].ok \/ rs[k - 2].ok

\* A run over 4 records completes in 5 steps, with failures that never trip
\* the breaker.
C7_Witness ==
    /\ driver = "ctl"
    /\ pc = "done"
    /\ Outcomes = << "complete" >>
    /\ batch_total = 4
    /\ Len(Events("step")) = 5
    /\ Len(batch_errors) = 2

----------------------------------------------------------------------------
\* The target list the configuration asks for: config.feature_ids when it is a
\* non-empty list, otherwise the layer's ids in load order (the layers of this
\* model hold each id once, so load order is row order).
ExpectedTarget ==
    IF config.feature_ids.some /\ config.feature_ids.val # << >>
    THEN config.feature_ids.val
    ELSE [k \in 1..Len(layer) |-> layer[k].id]

\* C8  Sequential, deterministic targets (the three batch loops): once
\* preparation is through, the ids handed to the renderer so far are a prefix of
\* the target list, one attempt per position (the number of attempts is the
\* index, plus the attempt that tripped the breaker); the total, also as
\* reported to the progress sink, is the length of that list; and a completed
\* run has attempted the whole list.
C8_SequentialTargets ==
    (driver \in { "ctl", "dlg", "gb" } /\ ~PrepFailed) =>
        LET rendered == RenderedIds IN
        /\ batch_ids = ExpectedTarget
        /\ batch_total = Len(ExpectedTarget)
        /\ IsPrefix(rendered, batch_ids)
        /\ Len(rendered) = batch_index + (IF BreakerOutcome THEN 1 ELSE 0)
        /\ \A p \in 1..Len(log) :
               log[p].ev = "progress" => log[p].total = Len(batch_ids)
        /\ (report # << >> /\ report[1].kind \in { "complete", "returned" }) =>
               rendered = batch_ids

\* generate_batch over a configured subset that is not in load order.
C8_Witness ==
    /\ driver = "gb"
    /\ pc = "done"
    /\ Len(layer) = 3
    /\ config.feature_ids = Some(<< 2, 3 >>)
    /\ RenderedIds = << 2, 3 >>

----------------------------------------------------------------------------
\* The attempt at position p of the history belongs to a loop with a progress sink.
HasSink == driver \in { "ctl", "dlg" } \/ (driver = "gb" /\ config.progress_callback)

\* The attempt at position p tripped the breaker: the run ended with it and
\* its record was not counted as processed.
TrippedAt(p) == p < Len(log) /\ log[p + 1] = EvOutcome("error")

\* C9  Periodic resource hygiene (the three batch loops): the render attempt
\* that makes the number of processed records a positive multiple of 10 is
\* followed at once by a forced collection, whether it succeeded or failed, and
\* a collection happens nowhere else.
C9_GcEveryTenth ==
    driver \in { "ctl", "dlg", "gb" } =>
        /\ \A p \in Positions("render") :
               (RendersUpTo(p) % GcPeriod = 0 /\ ~TrippedAt(p))
                   => (p < Len(log) /\ log[p + 1].ev = "gc")
        /\ \A p \in Positions("gc") :
               /\ p > 1
               /\ log[p - 1].ev = "render"
               /\ RendersUpTo(p) % GcPeriod = 0

----------------------------------------------------------------------------
----------------------------------------------------------------------------
\* The step of preparation that raised in generate_preview, if one did.
PreviewPrepFailed ==
    /\ report # << >>
    /\ report[1].msg \in FailPoints(PreviewStages) \ { "none" }

\* C11  Preview is a batch of one (generate_preview): over a layer with at
\* least one record whose preparation goes through, the renderer is called
\* exactly once, for the first id in load order whatever config.feature_ids
\* holds, and when the render succeeds the call returns the path of that one
\* page; over a layer without records the call raises and renders nothing; no
\* preview ever renders twice.
C11_PreviewIsBatchOfOne ==
    driver = "pv" =>
        /\ Len(Renders) <= 1
        /\ Len(report) = 1
        /\ pc = "done"
        /\ Len(layer) = 0 =>
               /\ Renders = << >>
               /\ report[1].kind = "raised"
               /\ batch_paths = << >>
        /\ PreviewPrepFailed => Renders = << >>
        /\ (Len(layer) >= 1 /\ ~PreviewPrepFailed) =>
               /\ Len(Renders) = 1
               /\ Renders[1].fid = layer[1].id
               /\ Renders[1].ok =>
                      /\ report[1].kind = "returned"
                      /\ report[1].has_paths
                      /\ report[1].paths = << PathOf(Renders[1].name) >>

\* A preview over three records whose config.feature_ids names the second and
\* the first record: the page of the first one is returned.
C11_Witness ==
    /\ driver = "pv"
    /\ Len(layer) = 3
    /\ config.feature_ids = Some(<< layer[2].id, layer[1].id >>)
    /\ RenderedIds = << layer[1].id >>
    /\ report[1].kind = "returned"
    /\ Len(report[1].paths) = 1

----------------------------------------------------------------------------
\* C12  Preview fidelity (generate_preview against generate_batch): the preview
\* hands the renderer what a batch hands it for the same record, the record's
\* id and the record's name included, and treats the outcome as the batch does:
\* a failed render does not reach the caller as an exception, and the base-map
\* layer is removed from the project whatever the render did.
C12_PreviewFidelity ==
    (driver = "pv" /\ Renders # << >>) =>
        /\ Renders[1] = BatchRenderCall(names_cache, Renders[1].fid, Renders[1].ok)
        /\ report[1].kind = "returned"
        /\ project_layers = 0

----------------------------------------------------------------------------
\* Reading the engine

\* The engine has loaded a layer.
Loaded == _id_field # ""

\* The ids of the layer the engine holds, in row order.
LayerIds == [k \in 1..Len(_layer) |-> _layer[k].id]

\* The attribute value is a number to the claims: an int or a float, or a str
\* that spells one; None, the empty str, any other str and any other object
\* are not.
Numeric(raw) ==
    \/ raw.t \in { "int", "float" }
    \/ raw.t = "str" /\ raw.s \in { << "0" >>, << "0", ".", "1" >>, << "nan" >> }

\* The rows of the layer held that have a number in the field.
RowsWithValue(field_name) == { k \in 1..Len(_layer) : Numeric(_layer[k][field_name]) }

\* The ids that are keys of the field's map.
KeysOf(field_name) == { _data_cache[field_name][k].id : k \in 1..Len(_data_cache[field_name]) }

\* C13  Load sparsity (load): once a layer is loaded, for every row and every
\* indicator field the row's id is a key of the field's map exactly when the
\* row's raw value is a number (not None, not "", coercible by float), and the
\* map holds that number; every row is in the name cache whatever its values
\* are; and a load whose arguments pass validation does not raise, whatever the
\* values are.
C13_LoadSparsity ==
    /\ Loaded =>
           /\ \A f \in DOMAIN _data_cache : \A k \in 1..Len(_layer) :
                  /\ (_layer[k].id \in KeysOf(f)) <=> Numeric(_layer[k][f])
                  /\ Numeric(_layer[k][f]) =>
                         ValueOf(_data_cache[f], _layer[k].id) = float(_layer[k][f]).val
           /\ \A k \in 1..Len(_layer) :
                  \E j \in 1..Len(names_cache) : names_cache[j].id = _layer[k].id
    /\ (/\ result.op = "load"
        /\ ~result.args.layer_null
        /\ result.args.layer_valid
        /\ { result.args.id_field, result.args.name_field }
               \cup Range(result.args.indicator_fields) \subseteq LayerFields)
           => result.raised = ""

\* Two indicator fields over three rows: one row has a value in "area" and none
\* in "pop", another has the value 0 in "pop" and none in "area".
C13_Witness ==
    /\ Loaded
    /\ _indicator_fields = << "pop", "area" >>
    /\ Len(_layer) = 3
    /\ \E k \in 1..3 :
           /\ _layer[k].pop = PyOther
           /\ _layer[k].id \notin KeysOf("pop")
           /\ _layer[k].id \in KeysOf("area")
    /\ \E k \in 1..3 :
           /\ _layer[k].pop = PyInt(0)
           /\ _layer[k].id \in KeysOf("pop")
           /\ _layer[k].id \notin KeysOf("area")

----------------------------------------------------------------------------
\* C14  Load replaces, never adds (load): after any sequence of loads the
\* caches hold the data of the layer loaded last and nothing else.  The loaded
\* fields are the indicator_fields of that call; the name cache holds that
\* layer's ids and names, row by row; every key and value of every map comes
\* from a row of that layer; and a ranking or a context read afterwards names
\* only records of that layer, under that layer's names.
C14_LoadReplaces ==
    Loaded =>
        /\ DOMAIN _data_cache = Range(_indicator_fields)
        /\ (result.op = "load" /\ result.raised = "") =>
               _indicator_fields = result.args.indicator_fields
        /\ feature_ids(names_cache) = LayerIds
        /\ \A k \in 1..Len(names_cache) : names_cache[k].name = _layer[k].name
        /\ \A f \in DOMAIN _data_cache : \A j \in 1..Len(_data_cache[f]) :
               \E k \in 1..Len(_layer) :
                   /\ _layer[k].id = _data_cache[f][j].id
                   /\ Numeric(_layer[k][f])
                   /\ float(_layer[k][f]).val = _data_cache[f][j].val
        /\ \A i \in 1..Len(result.ranking) :
               \E k \in 1..Len(_layer) :
                   /\ _layer[k].id = result.ranking[i].feature_id
                   /\ _layer[k].name = result.ranking[i].name
        /\ (result.op = "get_feature_context" /\ result.raised = "") =>
               \E k \in 1..Len(_layer) :
                   /\ _layer[k].id = result.ctx.feature_id
                   /\ _layer[k].name = result.ctx.name

\* The other layer is loaded, with one indicator, by an engine that held three
\* records and two indicators: two ids are left, and one field.
C14_Witness ==
    /\ result.op = "load"
    /\ result.raised = ""
    /\ Len(result.before) = 3
    /\ _layer = OtherLayer
    /\ feature_ids(names_cache) = << MaxRows + 2, 1 >>
    /\ DOMAIN _data_cache = { "pop" }
    /\ KeysOf("pop") = { MaxRows + 2 }

----------------------------------------------------------------------------
\* The arguments of a load that validation must refuse.
Refused(args) ==
    \/ args.layer_null
    \/ ~args.layer_valid
    \/ \E fname \in { args.id_field, args.name_field } \cup Range(args.indicator_fields) :
           fname \notin LayerFields

\* C15  Load validation (load): a load raises ValueError exactly when the
\* layer is null or invalid or one of id_field, name_field and the
\* indicator_fields is not a field of the layer; for a missing field the
\* message names a field that is missing and lists the layer's fields; and the
\* call that raises leaves the layer, the field names, the data cache and the
\* name cache as they were.
C15_LoadValidation ==
    [][ result'.op = "load" =>
            /\ Refused(result'.args) <=> result'.raised = "ValueError"
            /\ ~Refused(result'.args) => result'.raised = ""
            /\ Refused(result'.args) =>
                   /\ UNCHANGED << _layer, _id_field, _name_field, _indicator_fields,
                                   _data_cache, names_cache >>
                   /\ (~result'.args.layer_null /\ result'.args.layer_valid) =>
                          /\ result'.msg.field \notin LayerFields
                          /\ result'.msg.field \in
                                 { result'.args.id_field, result'.args.name_field }
                                     \cup Range(result'.args.indicator_fields)
                          /\ Range(result'.msg.available) = LayerFields
       ]_vars

\* A load that names the missing field "ghost" among its indicators is refused
\* by an engine that holds a layer: the caches are still filled.
C15_Witness ==
    /\ result.op = "load"
    /\ result.raised = "ValueError"
    /\ result.msg.field = "ghost"
    /\ result.args.indicator_fields = << "pop", "ghost" >>
    /\ Loaded
    /\ names_cache # << >>
    /\ DOMAIN _data_cache = { "pop", "area" }

----------------------------------------------------------------------------
\* The last call was one of the three queries.
Queried == result.op \in { "compute_stats", "compute_ranking", "get_feature_context" }

\* The last call returned a result: it did not raise.
Returned == result.raised = ""

\* C16  Unknown data fails loudly (compute_stats, compute_ranking,
\* get_feature_context): a query of a field that is not among the
\* indicator_fields of the last load (or of any field before the first load)
\* raises KeyError and returns nothing; get_feature_context also raises
\* KeyError for a record that has no number in the field, a record of the name
\* cache whose raw value was dropped included; a query that returns was about
\* a loaded field and, for a context, about a record with a value.
C16_UnknownDataFailsLoudly ==
    Queried =>
        LET f == result.args.field_name
            fid == result.args.feature_id
            known == f \in Range(_indicator_fields)
            valued == known /\ \E k \in RowsWithValue(f) : _layer[k].id = fid
        IN
        /\ ~known =>
               /\ result.raised = "KeyError"
               /\ result.msg.field = f
        /\ (result.op = "get_feature_context" /\ ~valued) => result.raised = "KeyError"
        /\ ~Returned =>
               /\ result.stats = NoStats
               /\ result.ranking = << >>
               /\ result.ctx = NoContext
        /\ Returned =>
               /\ known
               /\ result.op = "get_feature_context" => valued

\* The context of a record that is in the name cache and whose value in the
\* loaded field "pop" was dropped.
C16_Witness ==
    /\ result.op = "get_feature_context"
    /\ result.raised = "KeyError"
    /\ result.args.field_name = "pop"
    /\ "pop" \in DOMAIN _data_cache
    /\ \E j \in 1..Len(names_cache) : names_cache[j].id = result.args.feature_id
    /\ result.args.feature_id \notin KeysOf("pop")
    /\ KeysOf("pop") # { }

----------------------------------------------------------------------------
\* C17  Ranking correctness (compute_ranking): the list returned for a loaded
\* field has one entry per record with a value in the field, none missing and
\* none twice; the entry at position i has rank i; no value of the list is
\* smaller than a value before it when ascending, none greater when
\* descending, so that rank 1 holds the minimum, respectively the maximum.
C17_RankingCorrectness ==
    (result.op = "compute_ranking" /\ Returned) =>
        LET f == result.args.field_name
            rk == result.ranking
            K == Cardinality(RowsWithValue(f))
        IN
        /\ Len(rk) = K
        /\ \A k \in RowsWithValue(f) :
               Cardinality({ i \in 1..Len(rk) : rk[i].feature_id = _layer[k].id }) = 1
        /\ \A i \in 1..Len(rk) : rk[i].rank = i
        /\ \A i \in 1..Len(rk) : \A j \in (i + 1)..Len(rk) :
               IF result.args.ascending
               THEN ~Lt(rk[j].value, rk[i].value)
               ELSE ~Lt(rk[i].value, rk[j].value)

----------------------------------------------------------------------------
\* C18  Descending is the reverse of ascending (compute_ranking): over a field
\* whose values are numbers, records that share a value included, the record at
\* rank r of the descending list is the record at rank K + 1 - r of the
\* ascending list.
C18_DescendingIsReverse ==
    (/\ result.op = "compute_ranking"
     /\ Returned
     /\ ~result.args.ascending
     /\ ~HasNaN(ArrayOf(ValuesDict(_data_cache, result.args.field_name)))) =>
        LET desc == result.ranking
            asc == Ranking(_data_cache, names_cache, result.args.field_name, TRUE)
            K == Len(asc)
        IN
        /\ Len(desc) = K
        /\ \A r \in 1..K : desc[r].feature_id = asc[K + 1 - r].feature_id

----------------------------------------------------------------------------
\* C19  Context rank direction (get_feature_context): over a field whose
\* values are numbers, every record whose value is the maximum of the field has
\* rank 1, and the rank is the record's place in the descending ordering.
C19_MaximumHasRankOne ==
    (/\ result.op = "get_feature_context"
     /\ Returned
     /\ ~HasNaN(ArrayOf(ValuesDict(_data_cache, result.args.field_name)))) =>
        LET values == ValuesDict(_data_cache, result.args.field_name)
            ctx == result.ctx
            larger == { k \in 1..Len(values) : Lt(ctx.value, values[k].val) }
        IN
        /\ larger = { } => ctx.rank = 1
        /\ ctx.rank > Cardinality(larger)
        /\ ctx.rank <= ctx.total_features

----------------------------------------------------------------------------
----------------------------------------------------------------------------
\* ReportComposer._generate_single and the layers of the project

\* The stages of _generate_single that touch the project's layers, in order:
\* the page up to the map extent, the highlight overlay, the context layers,
\* the legend (the analysis layer takes its alias), the overview map, the
\* export. The cleanup follows the export.
RenderStages == << "layout", "highlight", "context", "legend", "overview", "export" >>

\* What _generate_single reads of the ReportConfig here; context_layers_config
\* has no entry or one, for the project's context layer.
RenderConfigs ==
    [highlight_analyzed : BOOLEAN,
     context_layers_config :
         { << >>, << [opacity |-> 50, legend_alias |-> << >>] >>,
           << [opacity |-> 50, legend_alias |-> << "Roads", " ", "2020" >>] >> },
     layer_legend_alias : { << >>, << "Communes", " ", "2020" >> },
     show_overview_map : BOOLEAN]

\* The temporary layers the stages completed have registered: the highlight
\* overlay, the overview highlight (both need the record's geometry) and the
\* clone of the analysis layer for the overview.
TemporaryLayers(cfg, geometry, fail_at) ==
    LET highlight == /\ StageDone(RenderStages, "highlight", fail_at)
                     /\ cfg.highlight_analyzed /\ geometry
        overview == StageDone(RenderStages, "overview", fail_at) /\ cfg.show_overview_map
    IN  (IF highlight THEN 1 ELSE 0) + (IF overview /\ geometry THEN 1 ELSE 0)
        + (IF overview THEN 1 ELSE 0)

\* The project after the stages that completed, before any cleanup.
Rendering(proj, cfg, geometry, fail_at) ==
    LET ctx_cfg == cfg.context_layers_config
        touched == StageDone(RenderStages, "context", fail_at) /\ ctx_cfg # << >>
        renamed == /\ StageDone(RenderStages, "legend", fail_at)
                   /\ cfg.layer_legend_alias # << >>
    IN  [layer_name |-> IF renamed THEN cfg.layer_legend_alias ELSE proj.layer_name,
         ctx |-> IF touched
                 THEN [name |-> IF ctx_cfg[1].legend_alias # << >>
                                THEN ctx_cfg[1].legend_alias ELSE proj.ctx.name,
                       opacity |-> ctx_cfg[1].opacity]
                 ELSE proj.ctx,
         temps |-> proj.temps + TemporaryLayers(cfg, geometry, fail_at)]

\* The cleanup after the export: the temporary layers of this call are
\* removed, the context layers touched get the name and the opacity recorded
\* in _ctx_originals, the analysis layer gets _orig_layer_name.
Cleanup(proj, during, cfg, geometry) ==
    [layer_name |-> proj.layer_name,
     ctx |-> IF cfg.context_layers_config # << >> THEN proj.ctx ELSE during.ctx,
     temps |-> during.temps - TemporaryLayers(cfg, geometry, "none")]

\* _generate_single: the project it leaves, having raised at fail_at or
\* returned the path.
GenerateSingle(proj, cfg, geometry, fail_at) ==
    LET during == Rendering(proj, cfg, geometry, fail_at) IN
    IF fail_at = "none" THEN Cleanup(proj, during, cfg, geometry) ELSE during

_generate_single(cfg, geometry, fail_at) ==
    /\ driver = "none"
    /\ project.temps < MaxTempLayers
    /\ project' = GenerateSingle(project, cfg, geometry, fail_at)
    /\ result' = [op |-> "_generate_single", before |-> project,
                  raised |-> IF fail_at = "none" THEN "" ELSE fail_at,
                  ret |-> IF fail_at = "none" THEN PathOf(layer[1].name) ELSE << >>]
    /\ UNCHANGED << layer, driver, pc, config, names_cache, cancelled, batch_paths,
                    batch_errors, consecutive_errors, batch_ids, batch_index,
                    batch_total, batch_base_layer, project_layers, report, log,
                    engine_fields, _status_cache, importable >>

\* The renderer used directly, one record after another on the same project.
RenderInit ==
    /\ layer = << [id |-> PyInt(7), name |-> << "O" >>, pop |-> PyNone, area |-> PyNone] >>
    /\ config = build_config("NONE")
    /\ driver = "none"
    /\ pc = "idle"
    /\ names_cache = << >>
    /\ cancelled = FALSE
    /\ batch_paths = << >>
    /\ batch_errors = << >>
    /\ consecutive_errors = 0
    /\ batch_ids = << >>
    /\ batch_index = 0
    /\ batch_total = 0
    /\ batch_base_layer = NoLayer
    /\ project_layers = 0
    /\ project = ProjectAsOpened
    /\ _status_cache = EmptyCache
    /\ importable = { }
    /\ report = << >>
    /\ log = << >>
    /\ _layer = << >>
    /\ _id_field = ""
    /\ _name_field = ""
    /\ _indicator_fields = << >>
    /\ _data_cache = EmptyDict
    /\ result = Raised("__init__", NoArgs, "", NoMessage)

RenderNext ==
    \E cfg \in RenderConfigs, geometry \in BOOLEAN, fail_at \in FailPoints(RenderStages) :
        _generate_single(cfg, geometry, fail_at)

RenderSpec == RenderInit /\ [][RenderNext]_vars

----------------------------------------------------------------------------
\* DependencyManager

\* OPTIONAL_DEPENDENCIES: the package names, in registry order; every import
\* name is the package name.
OPTIONAL_DEPENDENCIES == << "pandas", "plotly", "kaleido" >>

Packages == Range(OPTIONAL_DEPENDENCIES)

\* What the environment does with one pip run: the package installs and
\* imports, pip returns a code other than 0, subprocess.run times out,
\* pip returns 0 and the import raises ImportError, or subprocess.run raises
\* another exception.
InstallOutcomes == { "ok", "pip_failed", "timeout", "import_failed", "exception" }

\* self._status_cache[package] = status
SetStatus(cache, package, status) == (package :> status) @@ cache

\* _check_single
CheckSingle(mods, dep) == IF dep \in mods THEN "INSTALLED" ELSE "MISSING"

\* check_all: the cache is replaced by the status of every dependency.
CheckAll(mods) == [p \in Packages |-> CheckSingle(mods, p)]

\* get_missing, after its check_all: the dependencies not INSTALLED, in
\* registry order.
GetMissing(mods) ==
    SelectSeq(OPTIONAL_DEPENDENCIES, LAMBDA p : CheckAll(mods)[p] # "INSTALLED")

\* get_install_command: _find_python raises FileNotFoundError when none of the
\* candidate paths is a file.
GetInstallCommand(python) == IF python THEN "" ELSE "FileNotFoundError"

\* The status install reaches inside its try block.
Installed(outcome) == IF outcome = "ok" THEN "INSTALLED" ELSE "ERROR"

\* install(dep): the cache and the importable packages it leaves, what it
\* returns and what it raises. The command is built after the status is set
\* to INSTALLING and before the try block.
Install(cache, mods, dep, outcome, python) ==
    LET installing == SetStatus(cache, dep, "INSTALLING")
        raised == GetInstallCommand(python)
    IN  IF raised # ""
        THEN [cache |-> installing, mods |-> mods, ret |-> "", raised |-> raised]
        ELSE [cache |-> SetStatus(installing, dep, Installed(outcome)),
              mods |-> IF outcome = "ok" THEN mods \cup { dep } ELSE mods,
              ret |-> Installed(outcome), raised |-> ""]

RECURSIVE InstallEach(_, _, _, _, _)
\* install_all: for dep in missing: self.install(dep, progress_callback)
InstallEach(run, missing, k, outcomes, python) ==
    IF k > Len(missing) \/ run.raised # "" THEN run
    ELSE LET one == Install(run.cache, run.mods, missing[k], outcomes[missing[k]], python)
         IN  InstallEach([cache |-> one.cache, mods |-> one.mods,
                          attempted |-> Append(run.attempted, missing[k]),
                          raised |-> one.raised],
                         missing, k + 1, outcomes, python)

check_all ==
    /\ driver = "none"
    /\ _status_cache' = CheckAll(importable)
    /\ result' = [op |-> "check_all", ret |-> CheckAll(importable)]
    /\ UNCHANGED << layer, project, importable, run_vars, engine_fields, names_cache >>

install(dep, outcome, python) ==
    /\ driver = "none"
    /\ LET done == Install(_status_cache, importable, dep, outcome, python) IN
       /\ _status_cache' = done.cache
       /\ importable' = done.mods
       /\ result' = [op |-> "install", dep |-> dep, outcome |-> outcome,
                     python |-> python, ret |-> done.ret, raised |-> done.raised]
    /\ UNCHANGED << layer, project, run_vars, engine_fields, names_cache >>

install_all(outcomes, python) ==
    /\ driver = "none"
    /\ LET missing == GetMissing(importable)
           done == InstallEach([cache |-> CheckAll(importable), mods |-> importable,
                                attempted |-> << >>, raised |-> ""],
                               missing, 1, outcomes, python)
       IN /\ _status_cache' = done.cache
          /\ importable' = done.mods
          /\ result' = [op |-> "install_all", missing |-> missing,
                        attempted |-> done.attempted, python |-> python,
                        ret |-> IF done.raised = "" THEN done.cache ELSE EmptyCache,
                        raised |-> done.raised]
    /\ UNCHANGED << layer, project, run_vars, engine_fields, names_cache >>

\* A package is removed from QGIS's Python outside the plugin.
uninstall(dep) ==
    /\ driver = "none"
    /\ dep \in importable
    /\ importable' = importable \ { dep }
    /\ UNCHANGED << layer, project, _status_cache, run_vars, engine_fields,
                    names_cache, result >>

\* The manager as constructed, in an environment with some of the packages.
DepInit ==
    /\ layer = << >>
    /\ config = build_config("NONE")
    /\ driver = "none"
    /\ pc = "idle"
    /\ names_cache = << >>
    /\ cancelled = FALSE
    /\ batch_paths = << >>
    /\ batch_errors = << >>
    /\ consecutive_errors = 0
    /\ batch_ids = << >>
    /\ batch_index = 0
    /\ batch_total = 0
    /\ batch_base_layer = NoLayer
    /\ project_layers = 0
    /\ project = ProjectAsOpened
    /\ _status_cache = EmptyCache
    /\ importable \in SUBSET Packages
    /\ report = << >>
    /\ log = << >>
    /\ _layer = << >>
    /\ _id_field = ""
    /\ _name_field = ""
    /\ _indicator_fields = << >>
    /\ _data_cache = EmptyDict
    /\ result = Raised("__init__", NoArgs, "", NoMessage)

DepNext ==
    \/ check_all
    \/ \E dep \in Packages, outcome \in InstallOutcomes, python \in BOOLEAN :
           install(dep, outcome, python)
    \/ \E outcomes \in [Range(GetMissing(importable)) -> InstallOutcomes],
          python \in BOOLEAN :
           install_all(outcomes, python)
    \/ \E dep \in Packages : uninstall(dep)

DepSpec == DepInit /\ [][DepNext]_vars

----------------------------------------------------------------------------
\* C21  Stats degeneracy (compute_stats): on a loaded field compute_stats
\* returns and does not raise; for a field without values the FieldStats has
\* count 0, min, max, mean, median and std 0.0 and empty percentiles and
\* histogram lists; for a field with K >= 1 values its count is K, the number
\* of records that have a value in the field.
C21_StatsDegeneracy ==
    (result.op = "compute_stats" /\ result.args.field_name \in Range(_indicator_fields)) =>
        LET f == result.args.field_name
            K == Cardinality(RowsWithValue(f))
        IN
        /\ Returned
        /\ K = 0 =>
               result.stats =
                   [field_name |-> f, count |-> 0, min_val |-> Num(0), max_val |-> Num(0),
                    mean |-> Num(0), median |-> Num(0), std |-> ZeroStd,
                    percentiles |-> << >>, histogram_bins |-> 0, histogram_counts |-> 0]
        /\ K >= 1 => result.stats.count = K

----------------------------------------------------------------------------
\* C22  Sample standard deviation (compute_stats, get_feature_context): over a
\* field whose values are numbers, compute_stats returns std 0.0 for exactly
\* one value and, for two values or more, the root of the sum of the squared
\* differences from the mean divided by N - 1; get_feature_context divides
\* value - mean by that std, and its deviation_from_mean is 0.0 whenever the
\* std is 0, which is the case for a single value and for values all equal.
C22_SampleStd ==
    LET f == result.args.field_name
        arr == ArrayOf(ValuesDict(_data_cache, f))
        K == Len(arr)
        mean == ArrayMean(arr)
        std == Stats(_data_cache, f).std
    IN
    (Queried /\ Returned /\ ~HasNaN(arr)) =>
        /\ (result.op = "compute_stats" /\ K = 1) => result.stats.std = ZeroStd
        /\ (result.op = "compute_stats" /\ K >= 2) =>
               \/ /\ result.stats.std = ZeroStd
                  /\ \A k \in 1..K : arr[k] = mean
               \/ /\ result.stats.std = RootStd(arr, mean, K - 1)
                  /\ \E k \in 1..K : arr[k] # mean
        /\ result.op = "get_feature_context" =>
               /\ std = ZeroStd => result.ctx.deviation_from_mean = ZeroDeviation
               /\ std # ZeroStd =>
                      result.ctx.deviation_from_mean \in
                          { ZeroDeviation, RatioDeviation(result.ctx.value, mean, std) }
               /\ (\A k \in 1..K : arr[k] = arr[1]) =>
                      result.ctx.deviation_from_mean = ZeroDeviation

----------------------------------------------------------------------------
\* C23  Filename sanitising (_sanitize_filename): the result is the name with
\* every character that is neither alphanumeric nor one of space, '.', '_',
\* '-' replaced by '_' and every other character kept, in the same order and
\* number, less the whitespace that leads and trails; it holds no quote and no
\* path separator; "" gives "" and "***" gives "___".
C23_FilenameSanitising ==
    result.op = "_sanitize_filename" =>
        LET name == result.name
            ret == result.ret
            kept(c) == isalnum(c) \/ c \in { " ", ".", "_", "-" }
        IN
        /\ \E lead \in 0..Len(name) :
               /\ Len(ret) + lead <= Len(name)
               /\ \A k \in 1..Len(ret) :
                      ret[k] = IF kept(name[lead + k]) THEN name[lead + k] ELSE "_"
               /\ \A k \in (1..lead) \cup ((lead + Len(ret) + 1)..Len(name)) : name[k] = " "
        /\ ret # << >> => ret[1] \notin Whitespace /\ ret[Len(ret)] \notin Whitespace
        /\ \A k \in 1..Len(ret) : ret[k] \notin { "'", "\"", "/", "\\" }
        /\ name = << >> => ret = << >>
        /\ name = << "*", "*", "*" >> => ret = << "_", "_", "_" >>

\* The name  '* : the quote and the star are replaced, the space that leads is
\* stripped.
C23_Witness ==
    /\ result.op = "_sanitize_filename"
    /\ result.name = << " ", "'", "*" >>
    /\ result.ret = << "_", "_" >>

----------------------------------------------------------------------------
\* What a reader of a quoted literal gets from the text that follows the
\* opening quote: two quotes in a row are one quote of the value, a quote
\* alone ends the literal, and rest is what follows it.
RECURSIVE ReadLiteral(_, _)
ReadLiteral(text, value) ==
    IF text = << >> THEN [closed |-> FALSE, value |-> value, rest |-> << >>]
    ELSE IF Head(text) # "'" THEN ReadLiteral(Tail(text), Append(value, Head(text)))
    ELSE IF Len(text) >= 2 /\ text[2] = "'"
    THEN ReadLiteral(Tail(Tail(text)), Append(value, "'"))
    ELSE [closed |-> TRUE, value |-> value, rest |-> Tail(text)]

\* C24  Feature filter expression (_build_filter_expression): for an int or
\* a float id the expression is "<id_field>" = <id>, the id not quoted; for
\* every other id it is "<id_field>" = '<text>', and reading the literal gives
\* the id's string back: every quote of the id is doubled, the literal closes
\* at the last character of the expression and not before.
C24_FilterExpression ==
    result.op = "_build_filter_expression" =>
        LET id == result.feature_id
            expr == result.ret
            head == << "\"", result.id_field, "\"", " ", "=", " " >>
            tail == SubSeq(expr, Len(head) + 1, Len(expr))
            read == ReadLiteral(Tail(tail), << >>)
        IN
        /\ SubSeq(expr, 1, Len(head)) = head
        /\ id.t \in { "int", "float" } =>
               /\ tail = str(id)
               /\ \A k \in 1..Len(tail) : tail[k] # "'"
        /\ id.t \notin { "int", "float" } =>
               /\ tail # << >> /\ Head(tail) = "'"
               /\ read = [closed |-> TRUE, value |-> str(id), rest |-> << >>]

\* The id  O'\  : the quote is doubled and the backslash is left as it is.
C24_Witness ==
    /\ result.op = "_build_filter_expression"
    /\ result.feature_id = PyStr(<< "O", "'", "\\" >>)
    /\ result.ret = << "\"", "id", "\"", " ", "=", " ", "'", "O", "'", "'", "\\", "'" >>

----------------------------------------------------------------------------
\* C28  Map-style dispatch is total (_apply_renderer): for every member of
\* MapStyle, _apply_renderer returns and raises nothing.
C28_DispatchIsTotal ==
    result.op = "_apply_renderer" => result.raised = ""

----------------------------------------------------------------------------
\* s.split(sep): the parts of s between the occurrences of sep.
split(s, sep) ==
    LET cuts == { 0, Len(s) + 1 } \cup { k \in 1..Len(s) : s[k] = sep }
        cut(n) == CHOOSE c \in cuts : Cardinality({ d \in cuts : d < c }) = n - 1
    IN [n \in 1..(Cardinality(cuts) - 1) |-> SubSeq(s, cut(n) + 1, cut(n + 1) - 1)]

\* p.split("=", 1): the key before the first "=" and the value after it.
PartKey(p) ==
    LET eqs == { k \in 1..Len(p) : p[k] = "=" }
        first == IF eqs = { } THEN Len(p) + 1
                 ELSE CHOOSE k \in eqs : \A d \in eqs : k <= d
    IN SubSeq(p, 1, first - 1)

PartValue(p) == SubSeq(p, Len(PartKey(p)) + 2, Len(p))

\* C25  Base-map URI encoding: the registry has an entry for every
\* BaseMapType except NONE, and the URI built for an entry splits on "&" into
\* exactly four parts with the keys type, url, zmax, zmin in that order, the
\* url part percent-decoding to the registered tile URL.
C25_BaseMapUriEncoding ==
    /\ DOMAIN _BASE_MAP_URLS = BaseMapType \ { "NONE" }
    /\ (result.op = "_create_base_map_layer" /\ result.bm_type # "NONE") =>
          LET parts == split(result.uri, "&") IN
          /\ Len(parts) = 4
          /\ [k \in 1..4 |-> PartKey(parts[k])]
                = << << "t", "y", "p", "e" >>, << "u", "r", "l" >>,
                     << "z", "m", "a", "x" >>, << "z", "m", "i", "n" >> >>
          /\ unquote(PartValue(parts[2])) = _BASE_MAP_URLS[result.bm_type].url
          /\ PartValue(parts[3]) = _BASE_MAP_URLS[result.bm_type].zmax
          /\ PartValue(parts[4]) = _BASE_MAP_URLS[result.bm_type].zmin

\* A URI was built for a provider whose tile URL contains "&", and the layer
\* was created.
C25_Witness ==
    /\ result.op = "_create_base_map_layer"
    /\ result.bm_type = "GOOGLE_SATELLITE"
    /\ \E k \in 1..Len(_BASE_MAP_URLS["GOOGLE_SATELLITE"].url) :
          _BASE_MAP_URLS["GOOGLE_SATELLITE"].url[k] = "&"
    /\ result.ret # NoLayer

----------------------------------------------------------------------------
\* The inputs of a step-driven run, read from its history: the outcome of the
\* render of each record attempted, in the order of the target list, and the
\* number of steps taken before Cancel was clicked (none: more than any run
\* takes).
RenderOutcomes == LET rs == Renders IN [k \in 1..Len(rs) |-> rs[k].ok]

CancelAfter ==
    IF Positions("cancel") = { } THEN Len(log) + 1
    ELSE LET first == CHOOSE p \in Positions("cancel") :
                          \A q \in Positions("cancel") : p <= q
         IN Cardinality({ p \in Positions("step") : p < first })

\* The run of a step-driven loop before its first step.
RunStart ==
    [index |-> 0, counter |-> 0, steps |-> 0, rendered |-> << >>, paths |-> << >>,
     errors |-> << >>, outcome |-> ""]

RECURSIVE ControllerRun(_, _, _, _)
\* WizardController.process_next_report, step after step, for a target list,
\* the outcome of the render of each record and the cancel timing; the
\* outcome is "undetermined" where the loop renders a record whose outcome was
\* not given.
ControllerRun(run, ids, oks, cancel_after) ==
    IF StepCancelled(run.steps >= cancel_after)
    THEN [run EXCEPT !.outcome = "cancelled"]
    ELSE IF Exhausted(run.index, Len(ids))
    THEN [run EXCEPT !.outcome = "complete"]
    ELSE IF run.index + 1 > Len(oks)
    THEN [run EXCEPT !.outcome = "undetermined"]
    ELSE LET fid == ids[run.index + 1]
             name == NamesGet(names_cache, fid)
             ok == oks[run.index + 1]
             c == CounterAfter(run.counter, ok)
             attempted ==
                 [run EXCEPT !.steps = run.steps + 1,
                             !.counter = c,
                             !.rendered = Append(run.rendered, fid),
                             !.paths = IF ok THEN Append(run.paths, PathOf(name))
                                       ELSE run.paths,
                             !.errors = IF ok THEN run.errors
                                        ELSE Append(run.errors,
                                                    ErrorString(name, RenderError))]
         IN  IF ~ok /\ TripsBreaker(c)
             THEN [attempted EXCEPT !.outcome = "error"]
             ELSE ControllerRun([attempted EXCEPT !.index = run.index + 1],
                                ids, oks, cancel_after)

\* C26  The two step-driven batch loops are the same machine: a finished run
\* of WizardDialog._process_next_report or of
\* WizardController.process_next_report has rendered the records, and ends
\* with the outcome, the output paths and the error strings, that the
\* controller's loop yields for the same target list, the same render outcomes
\* and the same cancel timing.
C26_SameMachine ==
    (driver \in { "dlg", "ctl" } /\ pc = "done" /\ Positions("step") # { }) =>
        LET run == ControllerRun(RunStart, batch_ids, RenderOutcomes, CancelAfter) IN
        /\ RenderedIds = run.rendered
        /\ Outcomes = << run.outcome >>
        /\ batch_paths = run.paths
        /\ batch_errors = run.errors

\* The same, of the controller's loop alone.
C26_ControllerRun == driver = "ctl" => C26_SameMachine

----------------------------------------------------------------------------
\* C27  A failed render does not corrupt shared state: on every exit of
\* _generate_single, raising included, the analysis layer's name and the
\* context layer's name and opacity are what they were before the call, and
\* no temporary layer registered by the call is left in the project.
C27_RenderLeavesProject ==
    result.op = "_generate_single" => project = result.before

\* The same, of the renders that return.
C27_ReturnedRender ==
    (result.op = "_generate_single" /\ result.raised = "") => project = result.before

----------------------------------------------------------------------------
\* C29  One file per record: in a batch whose renders all succeed, distinct
\* target records yield distinct output file paths, whatever the display
\* names of the records.
C29_OneFilePerRecord ==
    (/\ driver \in { "dlg", "ctl", "gb" }
     /\ Failed = << >>
     /\ \A i, j \in 1..Len(RenderedIds) : RenderedIds[i] = RenderedIds[j] => i = j) =>
        /\ Len(batch_paths) = Len(RenderedIds)
        /\ \A i, j \in 1..Len(batch_paths) : batch_paths[i] = batch_paths[j] => i = j

\* The same, of the layers whose display names are distinct runs of letters
\* and digits.
C29_DistinctNames == layer \notin NamesakeLayers => C29_OneFilePerRecord

----------------------------------------------------------------------------
\* C30  Dependency install never escapes as an exception: install returns
\* INSTALLED on success and ERROR on every failure (pip fails, times out, the
\* import still fails, no Python interpreter is found), the cached status of
\* the package is the status returned and never INSTALLING, and install_all
\* attempts every missing dependency.
C30_InstallNeverRaises ==
    /\ result.op = "install" =>
          /\ result.raised = ""
          /\ result.ret = (IF result.outcome = "ok" /\ result.python
                           THEN "INSTALLED" ELSE "ERROR")
          /\ _status_cache[result.dep] = result.ret
    /\ result.op = "install_all" =>
          /\ result.raised = ""
          /\ result.attempted = result.missing
          /\ \A p \in Range(result.missing) : _status_cache[p] \in { "INSTALLED", "ERROR" }

\* The same, where a Python interpreter is found.
C30_WithInterpreter ==
    (result.op \in { "install", "install_all" } /\ result.python) => C30_InstallNeverRaises

====
